---- MODULE Spec2Model ----
(***************************************************************************)
(* Model of the Guardian Intel API client (GuardianIntelClient).           *)
(*                                                                         *)
(* The repository holds two builds of the client:                          *)
(*   "src"  - the TypeScript source of guardian-intel-client               *)
(*   "dist" - the compiled client                                          *)
(* They differ in the constructor, in handleApiError and in the handling   *)
(* of a successful response; the variable `build` says which one runs.     *)
(*                                                                         *)
(* A string is a sequence of fragments (TLA+ strings); text that is        *)
(* examined character by character has one character per fragment.        *)
(* A JS number is kept in tenths (57 is 5.7), so that fractional offsets   *)
(* and limits exist in the model.                                          *)
(***************************************************************************)
EXTENDS Integers, Sequences, FiniteSets, TLC

----------------------------------------------------------------------------
(* Bounds of the model *)

\* longest tag name tried, in characters
MaxTagLen == 3
\* longest API key tried, in characters
MaxKeyLen == 2
\* most dot-separated parts of a dotted candidate address
MaxParts == 5
\* most colon-separated groups of a colon candidate address
MaxGroups == 9
\* most tags in an answer of /tags
MaxTags == 3
\* most entries in an answer of /tags/x/ips
MaxEntries == 3
\* most lookupIp calls one caller has in flight together
MaxCalls == 3
\* most tag names, blocklists or activities of a lookup answer
MaxNames == 5
\* most addresses the upstream holds for a tag, and the largest page asked for
MaxTotal == 4
MaxLimit == 3

----------------------------------------------------------------------------
(* JS values: undefined, null, numbers (in tenths), strings and arrays of   *)
(* strings                                                                 *)

Undef == [t |-> "undefined", n |-> 0, s |-> <<>>]
Null == [t |-> "null", n |-> 0, s |-> <<>>]
\* the number whose value is k tenths
Num(k) == [t |-> "number", n |-> k, s |-> <<>>]
\* the integer i as a JS number
I(i) == Num(i * 10)
\* the JS string with fragments s
S(s) == [t |-> "string", n |-> 0, s |-> s]
\* the JS array of the strings items, each a single fragment
Arr(items) == [t |-> "array", n |-> 0, s |-> items]

\* JS truthiness: undefined, null, 0 and "" are falsy; every array is truthy
Truthy(v) ==
  CASE v.t = "undefined" -> FALSE
    [] v.t = "null" -> FALSE
    [] v.t = "number" -> v.n # 0
    [] v.t = "array" -> TRUE
    [] OTHER -> v.s # <<>>

\* a || b
Or(a, b) == IF Truthy(a) THEN a ELSE b

Digits == <<"0", "1", "2", "3", "4", "5", "6", "7", "8", "9">>

RECURSIVE NatToStr(_)
\* decimal digits of the natural number n, one per fragment
NatToStr(n) ==
  IF n < 10 THEN <<Digits[n + 1]>>
  ELSE NatToStr(n \div 10) \o <<Digits[(n % 10) + 1]>>

\* Number.prototype.toString() of the number of k tenths
NumToString(k) ==
  LET a == IF k < 0 THEN -k ELSE k
      whole == NatToStr(a \div 10)
      frac == IF a % 10 = 0 THEN <<>> ELSE <<".", Digits[(a % 10) + 1]>>
  IN (IF k < 0 THEN <<"-">> ELSE <<>>) \o whole \o frac

\* String(v), as a template literal `${v}` computes it
ToStr(v) ==
  CASE v.t = "undefined" -> <<"undefined">>
    [] v.t = "null" -> <<"null">>
    [] v.t = "number" -> NumToString(v.n)
    [] OTHER -> v.s

----------------------------------------------------------------------------
(* Character-level helpers *)

DigitChars == {"0", "1", "2", "3", "4", "5", "6", "7", "8", "9"}
HexChars == DigitChars \cup {"a", "b", "c", "d", "e", "f", "A", "B", "C", "D", "E", "F"}
WhiteSpace == {" ", "\t", "\n"}

\* s[i] is in the character class cls (FALSE past the end)
At(s, i, cls) == i >= 1 /\ i <= Len(s) /\ s[i] \in cls

RECURSIVE TrimStart(_)
TrimStart(s) ==
  IF s # <<>> /\ Head(s) \in WhiteSpace THEN TrimStart(Tail(s)) ELSE s

RECURSIVE TrimEnd(_)
TrimEnd(s) ==
  IF s # <<>> /\ s[Len(s)] \in WhiteSpace
  THEN TrimEnd(SubSeq(s, 1, Len(s) - 1)) ELSE s

\* String.prototype.trim()
Trim(s) == TrimEnd(TrimStart(s))

RECURSIVE Join(_, _)
\* parts joined by the separator character sep
Join(parts, sep) ==
  IF parts = <<>> THEN <<>>
  ELSE IF Len(parts) = 1 THEN parts[1]
  ELSE parts[1] \o <<sep>> \o Join(Tail(parts), sep)

RECURSIVE ToUpperCase(_)
\* String.prototype.toUpperCase, character by character
ToUpperCase(s) ==
  LET lower == <<"a", "b", "c", "d", "e", "f", "g", "h", "i", "j", "k", "l", "m",
                 "n", "o", "p", "q", "r", "s", "t", "u", "v", "w", "x", "y", "z">>
      upper == <<"A", "B", "C", "D", "E", "F", "G", "H", "I", "J", "K", "L", "M",
                 "N", "O", "P", "Q", "R", "S", "T", "U", "V", "W", "X", "Y", "Z">>
  IN IF s = <<>> THEN <<>>
     ELSE <<IF \E k \in 1..26 : lower[k] = s[1]
            THEN upper[CHOOSE k \in 1..26 : lower[k] = s[1]]
            ELSE s[1]>> \o ToUpperCase(Tail(s))

----------------------------------------------------------------------------
(* isValidIpAddress: the two regular expressions, matched position by      *)
(* position. An ...Ends operator gives the set of positions at which a     *)
(* match of the sub-pattern starting at position i can end (exclusive).    *)

\* (?:25[0-5]|2[0-4][0-9]|[01]?[0-9][0-9]?) starting at i
OctetEnds(s, i) ==
  LET alt1 == IF At(s, i, {"2"}) /\ At(s, i + 1, {"5"})
                   /\ At(s, i + 2, {"0", "1", "2", "3", "4", "5"})
              THEN {i + 3} ELSE {}
      alt2 == IF At(s, i, {"2"}) /\ At(s, i + 1, {"0", "1", "2", "3", "4"})
                   /\ At(s, i + 2, DigitChars)
              THEN {i + 3} ELSE {}
      opt == {i} \cup (IF At(s, i, {"0", "1"}) THEN {i + 1} ELSE {})
      alt3 == UNION {
                IF At(s, p, DigitChars)
                THEN {p + 1} \cup (IF At(s, p + 1, DigitChars) THEN {p + 2} ELSE {})
                ELSE {} : p \in opt }
  IN alt1 \cup alt2 \cup alt3

\* faulty [0-9a-fA-F]{0,4}: a group may be empty
HexGroupEndsLoose(s, i) ==
  { i + k : k \in { n \in 0..4 : \A m \in i..(i + n - 1) : At(s, m, HexChars) } }

\* [0-9a-fA-F]{1,4} starting at i
HexGroupEnds(s, i) ==
  { i + k : k \in { n \in 1..4 : \A m \in i..(i + n - 1) : At(s, m, HexChars) } }

\* one repetition of (?:<octet>\.) from any position of from
OctetDotEnds(s, from) ==
  { j + 1 : j \in { e \in UNION { OctetEnds(s, i) : i \in from } : At(s, e, {"."}) } }

\* one repetition of (?:<hexgroup>:) from any position of from
HexColonEnds(s, from) ==
  { j + 1 : j \in { e \in UNION { HexGroupEnds(s, i) : i \in from } : At(s, e, {":"}) } }

RECURSIVE OctetDotTimes(_, _, _)
\* (?:<octet>\.){n}
OctetDotTimes(s, from, n) ==
  IF n = 0 THEN from ELSE OctetDotTimes(s, OctetDotEnds(s, from), n - 1)

RECURSIVE HexColonTimes(_, _, _)
\* (?:<hexgroup>:){n}
HexColonTimes(s, from, n) ==
  IF n = 0 THEN from ELSE HexColonTimes(s, HexColonEnds(s, from), n - 1)

\* ipv4Regex.test(s): ^(?:<octet>\.){3}<octet>$
ipv4Regex(s) ==
  (Len(s) + 1) \in UNION { OctetEnds(s, i) : i \in OctetDotTimes(s, {1}, 3) }

\* ipv6Regex.test(s): ^(?:<hexgroup>:){7}<hexgroup>$|^::1$|^::$
ipv6Regex(s) ==
  \/ (Len(s) + 1) \in UNION { HexGroupEnds(s, i) : i \in HexColonTimes(s, {1}, 7) }
  \/ s = <<":", ":", "1">>
  \/ s = <<":", ":">>

isValidIpAddress(ip) == ipv4Regex(ip) \/ ipv6Regex(ip)

\* encodeURIComponent, on the characters the model uses
EncodeChar(c) ==
  CASE c = ":" -> <<"%", "3", "A">>
    [] c = " " -> <<"%", "2", "0">>
    [] c = "/" -> <<"%", "2", "F">>
    [] c = "\t" -> <<"%", "0", "9">>
    [] c = "\n" -> <<"%", "0", "A">>
    [] OTHER -> <<c>>

RECURSIVE encodeURIComponent(_)
encodeURIComponent(s) ==
  IF s = <<>> THEN <<>> ELSE EncodeChar(Head(s)) \o encodeURIComponent(Tail(s))

----------------------------------------------------------------------------
(* Error messages of the client. A message is cut into fragments wherever   *)
(* a text that the call-tool handler searches for begins or ends, so that  *)
(* a search sees it.                                                        *)

MsgApiKeyRequired == <<"Guardian Intel API key is required and cannot be empty">>
MsgInvalidIp == <<"Invalid IP address", " format">>
MsgTagRequired == <<"Tag name is required">>
MsgLimitExceeded == <<"Limit cannot exceed 10,000">>
MsgBadPaging == <<"Offset must be non-negative and limit must be positive">>
MsgInvalidResponse == <<"Invalid response format from Guardian Intel API">>
MsgTimeout == <<"Guardian Intel API request ", "timeout">>
MsgUnableToConnect == <<"Unable to connect", " to Guardian Intel API">>
\* `Guardian Intel API Error (${code}): ${message}`
MsgCoded(code, message) ==
  <<"Guardian Intel API Error (">> \o code \o <<")", ": ">> \o message
\* `Guardian Intel API Error: ${message}`
MsgGeneric(message) == <<"Guardian Intel API Error: ">> \o message

----------------------------------------------------------------------------
(* The constructor *)

DefaultBaseUrl == <<"https://threat-intel-api.abusix.com/beta">>

NoAxios == [created |-> FALSE, baseURL |-> <<>>, authHeader |-> "",
            authValue |-> <<>>, timeout |-> 0, interceptor |-> FALSE]

NoClient == [status |-> "none", apiKey |-> Undef, error |-> <<>>, axios |-> NoAxios]

\* !s || s.trim().length === 0, for a string or undefined s
IsBlank(v) == ~Truthy(v) \/ Len(Trim(v.s)) = 0

\* the compiled build rejects a blank apiKey before anything else; the
\* TypeScript source has no such check
ctorRejects(b, config) == b = "dist" /\ IsBlank(config.apiKey)

\* axios.create({...}) and interceptors.response.use(...)
ctorAxios(b, config) ==
  [created |-> TRUE,
   baseURL |-> Or(config.baseUrl, S(DefaultBaseUrl)).s,
   authHeader |-> IF b = "dist" THEN "x-api-key" ELSE "Authorization",
   authValue |-> IF b = "dist" THEN ToStr(config.apiKey)
                 ELSE <<"Bearer ">> \o ToStr(config.apiKey),
   timeout |-> 30000,
   interceptor |-> TRUE]

\* new GuardianIntelClient(config)
constructor(b, config) ==
  IF ctorRejects(b, config)
  THEN [status |-> "failed", apiKey |-> config.apiKey,
        error |-> MsgApiKeyRequired, axios |-> NoAxios]
  ELSE [status |-> "ready", apiKey |-> config.apiKey,
        error |-> <<>>, axios |-> ctorAxios(b, config)]

----------------------------------------------------------------------------
(* Requests, and the synchronous part of each operation: validation and    *)
(* the request it issues. A pre-flight result is either an error thrown    *)
(* before the await or the request handed to axios.                        *)

NoParams == [offset |-> Undef, limit |-> Undef, snapshot |-> Undef,
             includeDescriptions |-> Undef]

Request(path, params) == [path |-> path, params |-> params]

Thrown(msg) == [thrown |-> TRUE, error |-> msg, requests |-> <<>>]
Issued(req) == [thrown |-> FALSE, error |-> <<>>, requests |-> <<req>>]

\* lookupIp, up to its await
lookupIpPre(ip) ==
  IF ~isValidIpAddress(ip) THEN Thrown(MsgInvalidIp)
  ELSE Issued(Request(<<"/query/">> \o encodeURIComponent(ip), NoParams))

\* getTags, up to its await
getTagsPre(includeDescriptions) ==
  Issued(Request(<<"/tags">>,
    IF includeDescriptions
    THEN [NoParams EXCEPT !.includeDescriptions = S(<<"true">>)]
    ELSE NoParams))

\* getTagDetails, up to its await
getTagDetailsPre(tagName) ==
  IF IsBlank(tagName) THEN Thrown(MsgTagRequired)
  ELSE Issued(Request(<<"/tags/">> \o encodeURIComponent(tagName.s), NoParams))

\* const { offset = 0, limit = 1000, snapshot } = options
Default(v, d) == IF v.t = "undefined" THEN d ELSE v

\* faulty getTagIps: the paging bounds are checked only after the request
\* has been handed to axios
getTagIpsPreLate(tagName, options) ==
  LET offset == Default(options.offset, I(0))
      limit == Default(options.limit, I(1000))
      req == Request(<<"/tags/">> \o encodeURIComponent(ToStr(tagName)) \o <<"/ips">>,
                     [NoParams EXCEPT !.offset = S(ToStr(offset)),
                                      !.limit = S(ToStr(limit))])
  IN IF IsBlank(tagName) THEN Thrown(MsgTagRequired)
     ELSE IF limit.n > I(10000).n
          THEN [thrown |-> TRUE, error |-> MsgLimitExceeded, requests |-> <<req>>]
     ELSE IF offset.n < I(0).n \/ limit.n < I(1).n
          THEN [thrown |-> TRUE, error |-> MsgBadPaging, requests |-> <<req>>]
     ELSE Issued(req)

\* faulty getTagIps: the paging check comes before the limit check
getTagIpsPreSwapped(tagName, options) ==
  LET offset == Default(options.offset, I(0))
      limit == Default(options.limit, I(1000))
      req == Request(<<"/tags/">> \o encodeURIComponent(ToStr(tagName)) \o <<"/ips">>,
                     [NoParams EXCEPT !.offset = S(ToStr(offset)),
                                      !.limit = S(ToStr(limit)),
                                      !.snapshot = IF Truthy(options.snapshot)
                                                   THEN options.snapshot ELSE Undef])
  IN IF IsBlank(tagName) THEN Thrown(MsgTagRequired)
     ELSE IF offset.n < I(0).n \/ limit.n < I(1).n THEN Thrown(MsgBadPaging)
     ELSE IF limit.n > I(10000).n THEN Thrown(MsgLimitExceeded)
     ELSE Issued(req)

\* faulty getTagIps: the snapshot is attached whenever one was passed, the
\* empty one included
getTagIpsPreAnySnapshot(tagName, options) ==
  LET offset == Default(options.offset, I(0))
      limit == Default(options.limit, I(1000))
      params == [offset |-> S(ToStr(offset)),
                 limit |-> S(ToStr(limit)),
                 snapshot |-> options.snapshot,
                 includeDescriptions |-> Undef]
  IN IF IsBlank(tagName) THEN Thrown(MsgTagRequired)
     ELSE IF limit.n > I(10000).n THEN Thrown(MsgLimitExceeded)
     ELSE IF offset.n < I(0).n \/ limit.n < I(1).n THEN Thrown(MsgBadPaging)
     ELSE Issued(Request(
            <<"/tags/">> \o encodeURIComponent(tagName.s) \o <<"/ips">>, params))

\* getTagIps, up to its await
getTagIpsPre(tagName, options) ==
  LET offset == Default(options.offset, I(0))
      limit == Default(options.limit, I(1000))
      snapshot == options.snapshot
      params == [offset |-> S(ToStr(offset)),
                 limit |-> S(ToStr(limit)),
                 snapshot |-> IF Truthy(snapshot) THEN snapshot ELSE Undef,
                 includeDescriptions |-> Undef]
  IN IF IsBlank(tagName) THEN Thrown(MsgTagRequired)
     ELSE IF limit.n > I(10000).n THEN Thrown(MsgLimitExceeded)
     ELSE IF offset.n < I(0).n \/ limit.n < I(1).n THEN Thrown(MsgBadPaging)
     ELSE Issued(Request(
            <<"/tags/">> \o encodeURIComponent(tagName.s) \o <<"/ips">>, params))

\* healthCheck up to its await: GET /tags with limit '1' (and a timeout of
\* its own, 5000 ms, which is not part of the request record)
healthCheckPre == Issued(Request(<<"/tags">>, [NoParams EXCEPT !.limit = S(<<"1">>)]))

----------------------------------------------------------------------------
(* A failed attempt (AxiosError) and handleApiError *)

BodyFields == {"message", "error", "detail", "description", "statusCode", "code"}
NoFields == [k \in BodyFields |-> Undef]

\* response.data: undefined, null, a plain string or an object
NoData == [kind |-> "undefined", s |-> <<>>, f |-> NoFields]
NullData == [kind |-> "null", s |-> <<>>, f |-> NoFields]
StringData(s) == [kind |-> "string", s |-> s, f |-> NoFields]
ObjectData(f) == [kind |-> "object", s |-> <<>>, f |-> f]

\* truthiness of response.data
DataTruthy(d) == d.kind = "object" \/ (d.kind = "string" /\ d.s # <<>>)

\* data.<k>: a property read, undefined on a primitive
Field(d, k) == IF d.kind = "object" THEN d.f[k] ELSE Undef

\* an error with no response: error.response is undefined
NoResponse(code, message) ==
  [response |-> FALSE, status |-> Undef, statusText |-> Undef, data |-> NoData,
   code |-> code, message |-> message]

\* an error carrying a response
WithResponse(status, statusText, data, code, message) ==
  [response |-> TRUE, status |-> status, statusText |-> statusText, data |-> data,
   code |-> code, message |-> message]

NoFailure == NoResponse(Undef, <<>>)

\* error.code === name
CodeIs(e, name) == e.code.t = "string" /\ e.code.s = <<name>>

\* faulty tail of handleApiError: the timeout is looked for under the code
\* ETIMEDOUT, and a refused connection is not recognised
networkErrorMiscoded(e) ==
  IF CodeIs(e, "ETIMEDOUT") THEN MsgTimeout
  ELSE IF CodeIs(e, "ENOTFOUND") THEN MsgUnableToConnect
  ELSE MsgGeneric(e.message)

\* the tail of handleApiError, common to both builds: the network codes
networkError(e) ==
  IF CodeIs(e, "ECONNABORTED") THEN MsgTimeout
  ELSE IF CodeIs(e, "ENOTFOUND") \/ CodeIs(e, "ECONNREFUSED") THEN MsgUnableToConnect
  ELSE MsgGeneric(e.message)

\* handleApiError of the TypeScript source
handleApiErrorSrc(e) ==
  IF DataTruthy(e.data)
  THEN MsgCoded(ToStr(Field(e.data, "statusCode")), ToStr(Field(e.data, "message")))
  ELSE networkError(e)

\* the switch (status) of the compiled build (a number inside a message is
\* written one digit per fragment, as ToStr writes it)
statusError(status, statusText) ==
  CASE status = I(401) -> MsgCoded(<<"4", "0", "1">>, <<"Invalid or missing API key">>)
    [] status = I(403) ->
         MsgCoded(<<"4", "0", "3">>, <<"Access forbidden - check API key permissions">>)
    [] status = I(404) -> MsgCoded(<<"4", "0", "4">>, <<"Resource not found">>)
    [] status = I(429) -> MsgCoded(<<"4", "2", "9">>, <<"Rate limit exceeded">>)
    [] status = I(500) -> MsgCoded(<<"5", "0", "0">>, <<"Internal server error">>)
    [] status = I(503) -> MsgCoded(<<"5", "0", "3">>, <<"Service temporarily unavailable">>)
    [] OTHER -> MsgCoded(ToStr(status), ToStr(Or(statusText, S(<<"HTTP error">>))))

\* handleApiError of the compiled build
handleApiErrorDist(e) ==
  IF DataTruthy(e.data)
  THEN LET errorMessage ==
             Or(Field(e.data, "message"),
             Or(Field(e.data, "error"),
             Or(Field(e.data, "detail"),
             Or(Field(e.data, "description"),
             Or(e.statusText, S(<<"Unknown API error">>))))))
           errorCode ==
             Or(Field(e.data, "statusCode"),
             Or(Field(e.data, "code"),
             Or(e.status, S(<<"Unknown">>))))
       IN MsgCoded(ToStr(errorCode), ToStr(errorMessage))
  ELSE IF Truthy(e.status) THEN statusError(e.status, e.statusText)
  ELSE networkError(e)

handleApiError(b, e) ==
  IF b = "dist" THEN handleApiErrorDist(e) ELSE handleApiErrorSrc(e)

\* the response interceptor's rejection handler: throw this.handleApiError(error)
onRejected(b, axios, e) ==
  IF axios.interceptor THEN handleApiError(b, e) ELSE e.message

----------------------------------------------------------------------------
(* A successful response and what each operation makes of it *)

\* response.data of a 2xx answer: body is "undefined" (no body) or "object";
\* result is the kind of data.result: "absent", "null", "object" or "array".
\* Of an object result the record keeps entries, total, offset and limit; of
\* an array result its elements, the tags, each with its category and
\* intent. details says whether the compiled getTags hands the tags on.
\* lookup holds what an answer of /query/x says about the address.
NoLookup ==
  [classification |-> Undef, intent |-> Undef, names |-> Undef,
   firstSeen |-> Undef, blocklists |-> Undef, activities |-> Undef]
Body(body, result) ==
  [body |-> body, result |-> result, entries |-> Undef, total |-> Undef,
   offset |-> Undef, limit |-> Undef, tags |-> <<>>, details |-> FALSE,
   lookup |-> NoLookup]
NoBody == Body("undefined", "absent")
\* {result: {tag, entries, total, offset, limit}}
TagIpsBody(entries, total, offset, limit) ==
  [Body("object", "object") EXCEPT !.entries = entries, !.total = total,
                                   !.offset = offset, !.limit = limit]
\* {result: [tag, ...]}
TagsBody(tags) == [Body("object", "array") EXCEPT !.tags = tags]
\* {result: {item, intent, tags, firstSeen, ...}}, or with classification,
\* blocklists and activities
LookupBody(lookup) == [Body("object", "object") EXCEPT !.lookup = lookup]

\* response.data?.result is truthy
HasResult(d) == d.body = "object" /\ d.result \in {"object", "array"}

NoValue == [kind |-> "none", of |-> NoBody]
Fulfilled(v) == [thrown |-> FALSE, error |-> <<>>, value |-> v]
Failed(msg) == [thrown |-> TRUE, error |-> msg, value |-> NoValue]

\* the part of operation c.op after its await, on a successful response:
\* the source returns response.data as it is; the compiled build unwraps
\* data.result and throws when it is missing. The compiled getTags keeps
\* the tags only when includeDescriptions was set; the compiled getTagIps
\* fills offset, limit and ips in from the call's own arguments.
onFulfilled(b, c, d) ==
  IF b = "src" THEN Fulfilled([kind |-> "wrapper", of |-> d])
  ELSE IF c.op = "getTags"
       THEN IF HasResult(d) /\ d.result = "array"
            THEN Fulfilled([kind |-> "unwrapped",
                            of |-> [d EXCEPT !.details = c.includeDescriptions]])
            ELSE Failed(MsgInvalidResponse)
       ELSE IF HasResult(d)
            THEN Fulfilled([kind |-> "unwrapped",
                            of |-> IF c.op = "getTagIps"
                                   THEN [d EXCEPT !.offset = Or(d.offset, Default(c.options.offset, I(0))),
                                                  !.limit = Or(d.limit, Default(c.options.limit, I(1000))),
                                                  !.entries = Or(d.entries, Arr(<<>>))]
                                   ELSE d])
            ELSE Failed(MsgInvalidResponse)

\* the boolean healthCheck returns
BoolValue(b) == [kind |-> IF b THEN "true" ELSE "false", of |-> NoBody]

\* a catch block that passes the failure on, as the data operations do
healthCheckCatchRethrows(b, axios, e) == Failed(onRejected(b, axios, e))

\* healthCheck's catch block, on whatever the request threw: return false
healthCheckCatch(b, axios, e) == Fulfilled(BoolValue(FALSE))

----------------------------------------------------------------------------
(* Inputs tried by the specifications *)

\* every string over chars of at most n characters
StrsUpTo(chars, n) == UNION { [1..k -> chars] : k \in 0..n }

ApiKeys == {Undef} \cup { S(s) : s \in StrsUpTo({" ", "k"}, MaxKeyLen) }
BaseUrls == {Undef, S(<<"https://test-api.example.com">>)}

TagNames == {Undef} \cup { S(s) : s \in StrsUpTo({" ", "a"}, MaxTagLen) }

\* offsets and limits, in tenths: -1, -0.5, 0, 0.5, 5, 5.7, ...
Offsets == {Undef} \cup { Num(k) : k \in {-10, -5, 0, 5, 50, 57} }
Limits == {Undef} \cup
  { Num(k) : k \in {-10, 0, 5, 10, 1009, 10000, 100000, 100005, 100010, 200000} }
Snapshots == {Undef, S(<<>>), S(<<"snap-1">>)}
PageOptions ==
  { [offset |-> o, limit |-> l, snapshot |-> sn] :
      o \in Offsets, l \in Limits, sn \in Snapshots }
NoOptions == [offset |-> Undef, limit |-> Undef, snapshot |-> Undef]

\* dotted candidates: every combination of a few octet spellings ...
FewOctets == { <<"1">>, <<"2", "5", "5">>, <<"2", "5", "6">>, <<"0", "1">> }
\* ... and 192.168.1.1 with one part respelled
OctetSpellings ==
  { <<>>, <<"0">>, <<"0", "0">>, <<"0", "0", "1">>, <<"0", "9">>, <<"9", "9">>,
    <<"1", "0", "0">>, <<"1", "9", "9">>, <<"2", "0", "0">>, <<"2", "4", "9">>,
    <<"2", "5", "0">>, <<"2", "5", "5">>, <<"2", "5", "6">>, <<"2", "6", "0">>,
    <<"2", "9", "9">>, <<"3", "0", "0">>, <<"1", "0", "0", "0">>, <<"1", "a">>,
    <<"a">>, <<"-", "1">>, <<" ", "1">>, <<"1", "\n">>, <<"0", "/", "2", "4">> }
BaseQuad == << <<"1", "9", "2">>, <<"1", "6", "8">>, <<"1">>, <<"1">> >>
DottedIps ==
  { Join(p, ".") : p \in UNION { [1..n -> FewOctets] : n \in 1..MaxParts } }
  \cup { Join([BaseQuad EXCEPT ![k] = o], ".") : k \in 1..4, o \in OctetSpellings }

\* colon candidates: n groups "1" with up to two of them respelled; an
\* empty group gives the abbreviated forms ("1::1", "::1", ...)
GroupSpellings ==
  { <<"1">>, <<"0", "d", "b", "8">>, <<"F", "f", "F", "f">>,
    <<"1", "2", "3", "4", "5">>, <<"g">>, <<>> }
ColonIps ==
  UNION { { Join([i \in 1..n |-> IF i = a THEN x ELSE IF i = b THEN y ELSE <<"1">>], ":") :
              a \in 1..n, b \in 1..n, x \in GroupSpellings, y \in GroupSpellings } :
          n \in 1..MaxGroups }

OtherIps ==
  { <<>>, <<" ", " ", " ">>, <<"n", "u", "l", "l">>,
    <<"e", "x", "a", "m", "p", "l", "e", ".", "c", "o", "m">>,
    <<":", ":">>, <<":", ":", ":">>, <<":", ":", "2">>,
    \* 2001:0db8:85a3::8a2e::7334
    Join(<< <<"2", "0", "0", "1">>, <<"0", "d", "b", "8">>, <<"8", "5", "a", "3">>, <<>>,
            <<"8", "a", "2", "e">>, <<>>, <<"7", "3", "3", "4">> >>, ":"),
    \* 192.168.001.001
    Join(<< <<"1", "9", "2">>, <<"1", "6", "8">>, <<"0", "0", "1">>, <<"0", "0", "1">> >>, "."),
    \* ::ffff:1.2.3.4
    <<":", ":", "f", "f", "f", "f", ":", "1", ".", "2", ".", "3", ".", "4">> }

AllIps == DottedIps \cup ColonIps \cup OtherIps

\* a few addresses for the specifications that are not about validation
Ip1234 == <<"1", ".", "2", ".", "3", ".", "4">>
SomeIps == { Ip1234, <<":", ":", "1">>, <<"b", "a", "d">>, Join(BaseQuad, ".") }
SomeTags == { S(<<>>), S(<<" ">>), S(<<"a">>) }
SomeOptions ==
  { NoOptions,
    [offset |-> I(5), limit |-> I(100), snapshot |-> S(<<"snap-1">>)],
    [offset |-> Num(57), limit |-> Num(1009), snapshot |-> Undef],
    [offset |-> I(0), limit |-> I(10001), snapshot |-> Undef],
    [offset |-> I(-1), limit |-> I(10), snapshot |-> Undef] }

\* failed attempts
Statuses == { I(401), I(403), I(404), I(418), I(429), I(500), I(503) }
StatusTexts == { Undef, S(<<"Status Text">>) }
ErrorCodes ==
  { Undef, S(<<"ECONNABORTED">>), S(<<"ENOTFOUND">>), S(<<"ECONNREFUSED">>),
    S(<<"ERR_BAD_RESPONSE">>) }
RawMessages == { <<"Request failed">>, <<"timeout", " of 30000ms exceeded">> }

\* what an error body's field may hold when present; each field has a text
\* of its own, so that the field a message was taken from can be told
FieldValues(k) ==
  CASE k = "message" -> { S(<<"body message">>), S(<<>>) }
    [] k = "error" -> { S(<<"body error">>) }
    [] k = "detail" -> { S(<<"body detail">>) }
    [] k = "description" -> { S(<<"body description">>) }
    [] k = "statusCode" -> { I(499), I(0) }
    [] OTHER -> { S(<<"E_BODY_CODE">>) }
ErrorBodies ==
  { NoData, NullData, StringData(<<>>), StringData(<<"Internal Server Error">>) }
  \cup { ObjectData([message |-> m, error |-> e, detail |-> dt, description |-> ds,
                     statusCode |-> sc, code |-> c]) :
           m \in FieldValues("message") \cup {Undef},
           e \in FieldValues("error") \cup {Undef},
           dt \in FieldValues("detail") \cup {Undef},
           ds \in FieldValues("description") \cup {Undef},
           sc \in FieldValues("statusCode") \cup {Undef},
           c \in FieldValues("code") \cup {Undef} }
Failures ==
  { NoResponse(c, m) : c \in ErrorCodes, m \in RawMessages }
  \cup { WithResponse(st, tx, d, c, <<"Request failed">>) :
           st \in Statuses, tx \in StatusTexts, d \in ErrorBodies, c \in ErrorCodes }
SomeFailures ==
  { NoResponse(S(<<"ECONNREFUSED">>), <<"Request failed">>),
    WithResponse(I(404), Undef, ObjectData([NoFields EXCEPT !["error"] = S(<<"body error">>)]),
                 Undef, <<"Request failed">>),
    WithResponse(I(500), Undef, NullData, Undef, <<"Request failed">>) }

\* successful answers
Bodies ==
  { NoBody, Body("object", "absent"), Body("object", "null"),
    Body("object", "object"), Body("object", "array") }

\* the arguments of an invocation
Args(ip, tagName, options, includeDescriptions) ==
  [ip |-> ip, tagName |-> tagName, options |-> options,
   includeDescriptions |-> includeDescriptions]

\* tool invocations: each tool on a few arguments, and a few other names
Invocations ==
  { <<"guardian_intel_lookup", Args(ip, Undef, NoOptions, FALSE)>> :
      ip \in { Ip1234, <<"b", "a", "d">> } }
  \cup { <<"guardian_intel_tags_list", Args(<<>>, Undef, NoOptions, d)>> : d \in BOOLEAN }
  \cup { <<"guardian_intel_tag_details", Args(<<>>, tg, NoOptions, FALSE)>> : tg \in SomeTags }
  \cup { <<"guardian_intel_tag_ips", Args(<<>>, tg, o, FALSE)>> :
           tg \in { S(<<>>), S(<<"a">>) }, o \in SomeOptions }
  \cup { <<n, Args(Ip1234, S(<<"a">>), NoOptions, FALSE)>> :
           n \in { "unknown_tool", "", "lookupIp", "GUARDIAN_INTEL_LOOKUP" } }

\* answers of /tags/x/ips
TagIpsBodies ==
  LET pool == <<"1.2.3.4", "5.6.7.8", "9.10.11.12", "13.14.15.16", "17.18.19.20">>
  IN { TagIpsBody(e, tot, off, Undef) :
         e \in {Undef} \cup { Arr(SubSeq(pool, 1, n)) : n \in 0..MaxEntries },
         tot \in { Undef, I(0), I(2), I(7), I(8), I(1000) },
         off \in { Undef, I(5) } }

\* answers of /tags: the category and the intent of each tag, when it has one
TagsBodies ==
  LET kinds == { [category |-> c, intent |-> i] :
                   c \in { S(<<"activity">>), S(<<"tool">>), Undef },
                   i \in { S(<<"malicious">>), Undef } }
  IN { TagsBody(tags) : tags \in UNION { [1..n -> kinds] : n \in 0..MaxTags } }

\* answers of /query/x: the threat level in several spellings, up to
\* MaxNames tags, a first sighting or none; or a classification with
\* blocklists and activities
LookupBodies ==
  LET names == << <<"malware">>, <<"botnet">>, <<"spam">>, <<"scanner">>, <<"tor">>,
                  <<"proxy">>, <<"phishing">> >>
      some(n) == Arr(SubSeq(names, 1, n))
      levels == { Undef, S(<<"h", "i", "g", "h">>), S(<<"L", "o", "w">>) }
      seen == { Undef, Null, S(<<"2023-01-01T00:00:00Z">>) }
  IN { LookupBody([NoLookup EXCEPT !.intent = l, !.names = tg, !.firstSeen = fs]) :
         l \in levels, tg \in {Undef} \cup { some(n) : n \in 0..MaxNames }, fs \in seen }
     \cup
     { LookupBody([NoLookup EXCEPT !.classification = l, !.blocklists = bl,
                                  !.activities = ac, !.firstSeen = fs]) :
         l \in levels \ {Undef}, bl \in { Undef, some(0), some(2) },
         ac \in { Undef, some(0), some(MaxNames) }, fs \in seen }

\* every answer the tools are tried on
ToolBodies == Bodies \cup TagIpsBodies \cup TagsBodies \cup LookupBodies

\* what a stub of the client is told to reject with: Errors (TRUE, with the
\* message) and other values
StubThrown ==
  { <<TRUE, S(<<"Client error">>)>>, <<FALSE, S(<<"String error">>)>>,
    <<FALSE, Undef>>, <<FALSE, Null>>, <<FALSE, I(42)>> }
\* and what it is told to resolve to
StubBodies ==
  { Body("object", "object"),
    TagIpsBody(Arr(<<"1.2.3.4", "5.6.7.8">>), I(1000), Undef, Undef),
    [TagsBody(<< [category |-> S(<<"tool">>), intent |-> Undef] >>) EXCEPT !.details = TRUE] }

\* what lookups in flight together are tried on: two valid addresses and
\* one that is refused, an answer with a result and one without, a refused
\* connection and a 500
Together ==
  [ips |-> { Ip1234, Join(BaseQuad, "."), <<"b", "a", "d">> },
   bodies |-> { Body("object", "object"), NoBody },
   failures |-> { NoResponse(S(<<"ECONNREFUSED">>), <<"Request failed">>),
                  WithResponse(I(500), Undef, NullData, Undef, <<"Request failed">>) }]

----------------------------------------------------------------------------
(* State *)

VARIABLES
  build,    \* which build of the client runs: "src" or "dist"
  client,   \* the client object, once constructed
  call,     \* the data operation in progress, and how it ended (via: by
            \* "validation", by a "response" or by a "failure" of the request)
  tool,     \* the executeTool invocation in progress, and how it ended
  promises, \* the lookupIp calls started together by one caller
  server,   \* the MCP server: how far run() got, and the call-tool handler
  paging    \* a caller reading all the addresses of a tag page by page

vars == <<build, client, call, tool, promises, server, paging>>

Builds == {"src", "dist"}

IdleCall ==
  [pc |-> "idle", op |-> "none", ip |-> <<>>, tagName |-> Undef,
   options |-> NoOptions, includeDescriptions |-> FALSE,
   requests |-> <<>>, via |-> "none", settled |-> "pending", error |-> <<>>,
   value |-> NoValue,
   failure |-> NoFailure, answer |-> NoBody]

\* what a handler returns: the pagination block of tag_ips, or the counts
\* of tags_list (a histogram is the sequence of its keys, each with its
\* count, in the order in which the keys were first set)
NoResult ==
  [kind |-> "none", ip_addresses |-> Undef, total |-> Undef, returned |-> 0,
   offset |-> Undef, limit |-> Undef, has_more |-> FALSE,
   total_tags |-> 0, categories |-> <<>>, intents |-> <<>>, summary |-> <<>>]

\* what the awaited client operation settled with: a value, or a thrown one
Settlement(settled, isError, thrown, value) ==
  [settled |-> settled, isError |-> isError, thrown |-> thrown, value |-> value]

\* no tool invocation in progress; client says whether the tools hold the
\* "real" client or a "stub" of it, awaited what the client call of the
\* handler settled with
IdleTool ==
  [pc |-> "idle", name |-> "", client |-> "none",
   args |-> Args(<<>>, Undef, NoOptions, FALSE),
   awaited |-> Settlement("pending", FALSE, Undef, NoValue),
   settled |-> "pending", error |-> <<>>, result |-> NoResult]

\* what a handler gives the protocol caller: nothing yet, the catalog of
\* tools, a result with so many content items and their text, or an McpError
NoReply ==
  [kind |-> "none", code |-> "none", message |-> <<>>, items |-> 0, text |-> NoResult,
   catalog |-> <<>>]

\* what a mock of the tools is told to reject with: Errors (TRUE, with the
\* message) whose messages hold one of the texts the handler searches for,
\* two of them, or none, and values that are not Errors
MockThrown ==
  LET notFound == MsgCoded(<<"4", "0", "4">>, <<"Not found">>)
      unavailable == MsgCoded(<<"5", "0", "3">>, <<"Service unavailable">>)
      messages ==
        { MsgInvalidIp, MsgTagRequired, notFound, unavailable,
          <<"Request ", "timeout">>, <<"Unable to connect", " to server">>,
          <<"Some other error">>, <<>>,
          MsgCoded(<<"4", "0", "3">>, <<"Forbidden">>),
          <<"Guardian Intel API Error (", "4", "0", "4", "0", ")", ": ", "odd">>,
          <<"Tool execution failed: ">> \o MsgInvalidIp,
          MsgInvalidIp \o <<": ">> \o MsgTagRequired,
          MsgTagRequired \o <<" at ">> \o notFound,
          notFound \o <<" then ">> \o unavailable,
          unavailable \o <<" then ">> \o notFound,
          MsgCoded(<<"4", "0", "4">>, <<"upstream ", "timeout">>),
          MsgCoded(<<"5", "0", "3">>, <<"gateway ", "timeout">>),
          <<"timeout", ": ", "Unable to connect">>,
          <<"Unable to connect", " after ", "timeout">> }
  IN { <<TRUE, S(m)>> : m \in messages }
     \cup { <<FALSE, S(<<"String error">>)>>, <<FALSE, S(MsgInvalidIp)>>,
            <<FALSE, Undef>>, <<FALSE, I(42)>> }

\* the server as constructed: run() not called, no request in progress.
\* probe is how healthCheck ended ("true", "false" or "threw"), warned
\* whether run() logged a warning, rejection what a mock of the tools threw
IdleServer ==
  [pc |-> "created", probe |-> "none", warned |-> FALSE, connected |-> FALSE,
   tools |-> "none", rejection |-> <<FALSE, Undef>>, reply |-> NoReply]

\* no paging in progress: list is what the upstream holds, collected the
\* pages received so far, calls how many pages were asked for
IdlePaging ==
  [pc |-> "idle", list |-> <<>>, limit |-> 0, offset |-> 0, collected |-> <<>>,
   calls |-> 0]

Init ==
  /\ build \in Builds
  /\ client = NoClient
  /\ call = IdleCall
  /\ tool = IdleTool
  /\ promises = [i \in 1..MaxCalls |-> IdleCall]
  /\ server = IdleServer
  /\ paging = IdlePaging

\* the state of a call after the synchronous part pre of operation op
Started(c, pre) ==
  [c EXCEPT !.requests = pre.requests,
            !.pc = IF pre.thrown THEN "done" ELSE "awaiting",
            !.via = IF pre.thrown THEN "validation" ELSE "none",
            !.settled = IF pre.thrown THEN "rejected" ELSE "pending",
            !.error = pre.error]

CanCall == client.status = "ready" /\ call.pc = "idle"

----------------------------------------------------------------------------
(* The tool dispatcher (GuardianIntelTools). The TypeScript source of the  *)
(* tools reads response.result of what the source client returns; the      *)
(* compiled tools read the flat object the compiled client returns.        *)

\* getToolDefinitions(): the names of the tools it lists, in its order
getToolDefinitions ==
  <<"guardian_intel_lookup", "guardian_intel_tags_list",
    "guardian_intel_tag_details", "guardian_intel_tag_ips">>

ToolNames == { getToolDefinitions[i] : i \in 1..Len(getToolDefinitions) }

\* faulty switch: the case of guardian_intel_tag_ips is missing
routeWithoutTagIps(name) ==
  CASE name = "guardian_intel_lookup" -> "lookupIp"
    [] name = "guardian_intel_tags_list" -> "getTags"
    [] name = "guardian_intel_tag_details" -> "getTagDetails"
    [] OTHER -> "none"

\* a switch that sends every other name to the first case
routeToLookup(name) ==
  CASE name = "guardian_intel_tags_list" -> "getTags"
    [] name = "guardian_intel_tag_details" -> "getTagDetails"
    [] name = "guardian_intel_tag_ips" -> "getTagIps"
    [] OTHER -> "lookupIp"

\* the switch of executeTool: the client operation the handler of name
\* calls, "none" for the default case
route(name) ==
  CASE name = "guardian_intel_lookup" -> "lookupIp"
    [] name = "guardian_intel_tags_list" -> "getTags"
    [] name = "guardian_intel_tag_details" -> "getTagDetails"
    [] name = "guardian_intel_tag_ips" -> "getTagIps"
    [] OTHER -> "none"

MsgUnknownTool(name) == <<"Unknown tool: ", name>>
MsgToolFailed(message) == <<"Tool execution failed: ">> \o message
\* the TypeError of reading property prop of undefined or null
MsgCannotRead(of, prop) == <<"Cannot read properties of ", of, " (reading '", prop, "')">>

\* the catch of executeTool: the message of the Error it throws for a thrown
\* value, an Error (thrown is then its message) or anything else
wrapError(b, isError, thrown) ==
  MsgToolFailed(IF isError THEN thrown.s
                ELSE IF b = "src" THEN <<"Unknown error">>
                ELSE ToStr(thrown))

\* the client call a handler makes with its params, up to the call's await
invoke(op, args) ==
  CASE op = "lookupIp" ->
         Started([IdleCall EXCEPT !.op = op, !.ip = args.ip], lookupIpPre(args.ip))
    [] op = "getTags" ->
         Started([IdleCall EXCEPT !.op = op, !.includeDescriptions = args.includeDescriptions],
                 getTagsPre(args.includeDescriptions))
    [] op = "getTagDetails" ->
         Started([IdleCall EXCEPT !.op = op, !.tagName = args.tagName],
                 getTagDetailsPre(args.tagName))
    [] OTHER ->
         Started([IdleCall EXCEPT !.op = op, !.tagName = args.tagName, !.options = args.options],
                 getTagIpsPre(args.tagName, args.options))

\* the pattern of ip in the input schema of guardian_intel_lookup, as a JSON
\* Schema validator tests it: ^<dotted quad>$|^(?:<hexgroup>:){7}<hexgroup>$
ipPattern(s) ==
  \/ (Len(s) + 1) \in UNION { OctetEnds(s, i) : i \in OctetDotTimes(s, {1}, 3) }
  \/ (Len(s) + 1) \in UNION { HexGroupEnds(s, i) : i \in HexColonTimes(s, {1}, 7) }

\* the input schemas of guardian_intel_tag_details and guardian_intel_tag_ips
\* (the former has tagName only): tagName is a required string of at least
\* one character; offset, limit and snapshot are optional, offset a number
\* >= 0, limit a number from 1 to 10000, snapshot a string
tagSchema(tagName, options) ==
  /\ tagName.t = "string" /\ Len(tagName.s) >= 1
  /\ options.offset.t = "undefined"
       \/ (options.offset.t = "number" /\ options.offset.n >= I(0).n)
  /\ options.limit.t = "undefined"
       \/ (options.limit.t = "number" /\ options.limit.n >= I(1).n
             /\ options.limit.n <= I(10000).n)
  /\ options.snapshot.t \in {"undefined", "string"}

\* x < total as JS compares them, x being a number of tenths: undefined
\* converts to NaN and null to 0
Less(x, total) ==
  CASE total.t = "number" -> x < total.n
    [] total.t = "null" -> x < 0
    [] OTHER -> FALSE

\* a flag that is still set when the last entry has just been returned
hasMoreInclusive(offset, returned, total) == Less(offset.n + returned * 10 - 1, total)

\* a flag that compares the size of the page alone with the total
hasMoreIgnoringOffset(offset, returned, total) == Less(returned * 10, total)

\* has_more: offset + entries.length < total
hasMore(offset, returned, total) == Less(offset.n + returned * 10, total)

RECURSIVE Stats(_)
\* tags.forEach(tag => { stats[key] = (stats[key] || 0) + 1 }) over the keys
\* of the tags, in order
Stats(keys) ==
  IF keys = <<>> THEN <<>>
  ELSE LET rest == Stats(SubSeq(keys, 1, Len(keys) - 1))
           key == keys[Len(keys)]
       IN IF \E i \in 1..Len(rest) : rest[i].key = key
          THEN [i \in 1..Len(rest) |->
                  IF rest[i].key = key THEN [rest[i] EXCEPT !.count = @ + 1] ELSE rest[i]]
          ELSE Append(rest, [key |-> key, count |-> 1])

\* getCategoryStats and getIntentStats (field is "category" or "intent"): the
\* source uses tag[field] as the property key, whatever it is; the compiled
\* tools use tag[field] || 'unknown'
getStats(b, tags, field) ==
  Stats([i \in 1..Len(tags) |->
           IF b = "src" THEN ToStr(tags[i][field])
           ELSE ToStr(Or(tags[i][field], S(<<"unknown">>)))])

\* the getTagsList handler after its await, on the value v of client.getTags:
\* it returns its result or throws a TypeError
getTagsList(b, args, v) ==
  LET d == v.of
  IN IF b = "src"
     THEN IF d.body = "undefined" THEN Failed(MsgCannotRead("undefined", "result"))
          ELSE IF d.result = "absent" THEN Failed(MsgCannotRead("undefined", "length"))
          ELSE IF d.result = "null" THEN Failed(MsgCannotRead("null", "length"))
          ELSE IF d.result = "object" THEN Failed(<<"response.result.map is not a function">>)
          ELSE Fulfilled([NoResult EXCEPT !.kind = "tags_list",
                                         !.total_tags = Len(d.tags),
                                         !.categories = getStats(b, d.tags, "category"),
                                         !.intents = getStats(b, d.tags, "intent")])
     ELSE Fulfilled([NoResult EXCEPT !.kind = "tags_list",
                                    !.total_tags = Len(d.tags),
                                    !.categories = IF d.details THEN getStats(b, d.tags, "category")
                                                   ELSE <<>>,
                                    !.intents = IF d.details THEN getStats(b, d.tags, "intent")
                                                ELSE <<>>])

\* the getTagIps handler after its await, on the value v of client.getTagIps
getTagIps(b, args, v) ==
  LET d == v.of
  IN IF b = "src"
     THEN IF d.body = "undefined" THEN Failed(MsgCannotRead("undefined", "result"))
          ELSE IF d.result = "absent" THEN Failed(MsgCannotRead("undefined", "tag"))
          ELSE IF d.result = "null" THEN Failed(MsgCannotRead("null", "tag"))
          ELSE IF d.entries.t # "array" THEN Failed(MsgCannotRead(d.entries.t, "length"))
          ELSE Fulfilled([NoResult EXCEPT !.kind = "tag_ips",
                                         !.ip_addresses = d.entries,
                                         !.total = d.total,
                                         !.returned = Len(d.entries.s),
                                         !.offset = Or(args.options.offset, I(0)),
                                         !.limit = Or(args.options.limit, I(1000)),
                                         !.has_more = hasMore(Or(args.options.offset, I(0)),
                                                              Len(d.entries.s), d.total)])
     ELSE IF d.entries.t # "array" THEN Failed(MsgCannotRead(d.entries.t, "length"))
     ELSE Fulfilled([NoResult EXCEPT !.kind = "tag_ips",
                                    !.ip_addresses = d.entries,
                                    !.total = Or(d.total, I(0)),
                                    !.returned = Len(d.entries.s),
                                    !.offset = Or(d.offset, I(0)),
                                    !.limit = Or(d.limit, I(1000)),
                                    !.has_more = hasMore(Or(d.offset, I(0)), Len(d.entries.s),
                                                         Or(d.total, I(0)))])

\* generateThreatSummary(result), on what the answer says of the address r:
\* the source tools speak of the classification, the blocklists and the
\* activities, the compiled tools of the threat level and the tags
generateThreatSummary(b, r) ==
  LET firstSeen == IF Truthy(r.firstSeen)
                   THEN <<". First seen: ">> \o ToStr(r.firstSeen) ELSE <<>>
  IN IF b = "src"
     THEN LET activities == Or(r.activities, Arr(<<>>)).s
              blocklists == Or(r.blocklists, Arr(<<>>)).s
          IN <<"IP is classified as ">> \o ToUpperCase(r.classification.s)
             \o (IF Len(blocklists) > 0
                 THEN <<" and appears on ">> \o ToStr(I(Len(blocklists))) \o <<" blocklist(s)">>
                 ELSE <<>>)
             \o (IF Len(activities) > 0
                 THEN <<". Observed activities: ">> \o Join(activities, ", ")
                 ELSE <<>>)
             \o firstSeen
     ELSE LET threatLevel == Or(r.intent, S(<<"u", "n", "k", "n", "o", "w", "n">>)).s
              tags == Or(r.names, Arr(<<>>)).s
              slice == SubSeq(tags, 1, IF Len(tags) < 3 THEN Len(tags) ELSE 3)
          IN <<"IP threat level: ">> \o ToUpperCase(threatLevel)
             \o (IF Len(tags) > 0
                 THEN <<" with ">> \o ToStr(I(Len(tags))) \o <<" associated tag(s): ">>
                      \o Join(slice, ", ")
                      \o (IF Len(tags) > 3
                          THEN <<" and ">> \o ToStr(I(Len(tags) - 3)) \o <<" more">>
                          ELSE <<>>)
                 ELSE <<>>)
             \o firstSeen

\* the lookupIp and getTagDetails handlers after their await: the source
\* reads the fields of response.result (first is the first one read), and
\* needs an object there; the compiled tools read the flat object
getDetails(b, name, v) ==
  LET d == v.of
      first == IF name = "guardian_intel_lookup" THEN "ip" ELSE "name"
      missing == IF name = "guardian_intel_lookup" THEN "toLowerCase" ELSE "map"
      kind == IF name = "guardian_intel_lookup" THEN "lookup" ELSE "tag_details"
  IN IF b = "src" /\ d.body = "undefined" THEN Failed(MsgCannotRead("undefined", "result"))
     ELSE IF b = "src" /\ d.result = "absent" THEN Failed(MsgCannotRead("undefined", first))
     ELSE IF b = "src" /\ d.result = "null" THEN Failed(MsgCannotRead("null", first))
     ELSE IF b = "src" /\ d.result = "array" THEN Failed(MsgCannotRead("undefined", missing))
     ELSE IF name # "guardian_intel_lookup" THEN Fulfilled([NoResult EXCEPT !.kind = kind])
     ELSE IF b = "src" /\ d.lookup.classification.t = "undefined"
          THEN Failed(MsgCannotRead("undefined", "toLowerCase"))
     ELSE Fulfilled([NoResult EXCEPT !.kind = kind,
                                    !.summary = generateThreatSummary(b, d.lookup)])

\* executeTool once the client operation of its handler has settled with o
settleTool(b, tl, o) ==
  IF o.settled = "rejected"
  THEN [tl EXCEPT !.pc = "done", !.awaited = o, !.settled = "rejected",
                  !.error = wrapError(b, o.isError, o.thrown)]
  ELSE LET r == CASE tl.name = "guardian_intel_tags_list" -> getTagsList(b, tl.args, o.value)
                  [] tl.name = "guardian_intel_tag_ips" -> getTagIps(b, tl.args, o.value)
                  [] OTHER -> getDetails(b, tl.name, o.value)
       IN IF r.thrown
          THEN [tl EXCEPT !.pc = "done", !.awaited = o, !.settled = "rejected",
                          !.error = wrapError(b, TRUE, S(r.error))]
          ELSE [tl EXCEPT !.pc = "done", !.awaited = o, !.settled = "resolved",
                          !.result = r.value]

----------------------------------------------------------------------------
(* The MCP server (GuardianIntelMcpServer): run() and the call-tool        *)
(* handler.                                                                 *)

\* how a mock of the client may end healthCheck
ProbeOutcomes == { "true", "false", "threw" }

\* faulty run(): the transport is connected only after a healthy probe
afterProbeGating(sv, outcome) ==
  IF outcome = "true"
  THEN [sv EXCEPT !.pc = "connecting", !.probe = outcome]
  ELSE [sv EXCEPT !.pc = "aborted", !.probe = outcome, !.warned = TRUE]

\* run() after its await of healthCheck, which returned true or false or
\* threw: log the success or a warning, and go on to connect
afterProbe(sv, outcome) ==
  [sv EXCEPT !.pc = "connecting", !.probe = outcome, !.warned = (outcome # "true")]

\* errorMessage.includes(pattern), fragment by fragment
Includes(message, pattern) ==
  \E i \in 0..(Len(message) - Len(pattern)) :
    SubSeq(message, i + 1, i + Len(pattern)) = pattern

\* new McpError(code, message), thrown by the handler
McpError(code, message) ==
  [NoReply EXCEPT !.kind = "error", !.code = code, !.message = message]

\* faulty handler: the search for 'timeout' comes before the searches for
\* the status codes
callToolCatchTimeoutFirst(isError, thrown) ==
  LET errorMessage == IF isError THEN thrown.s ELSE <<"Unknown error occurred">>
  IN IF Includes(errorMessage, <<"Invalid IP address">>)
     THEN McpError("InvalidParams", errorMessage)
     ELSE IF Includes(errorMessage, <<"Tag name is required">>)
     THEN McpError("InvalidParams", errorMessage)
     ELSE IF Includes(errorMessage, <<"timeout">>)
     THEN McpError("InternalError",
                   <<"Request timeout - Guardian Intel API is not responding">>)
     ELSE IF Includes(errorMessage, <<"Guardian Intel API Error (", "4", "0", "4", ")">>)
     THEN McpError("InvalidParams", <<"Tag not found">>)
     ELSE IF Includes(errorMessage, <<"Guardian Intel API Error (", "5", "0", "3", ")">>)
     THEN McpError("InternalError", <<"Guardian Intel service temporarily unavailable">>)
     ELSE IF Includes(errorMessage, <<"Unable to connect">>)
     THEN McpError("InternalError", <<"Unable to connect to Guardian Intel API">>)
     ELSE McpError("InternalError", <<"Tool execution failed: ">> \o errorMessage)

\* the catch block of the call-tool handler, on what executeTool threw
callToolCatch(isError, thrown) ==
  LET errorMessage == IF isError THEN thrown.s ELSE <<"Unknown error occurred">>
  IN IF Includes(errorMessage, <<"Invalid IP address">>)
     THEN McpError("InvalidParams", errorMessage)
     ELSE IF Includes(errorMessage, <<"Tag name is required">>)
     THEN McpError("InvalidParams", errorMessage)
     ELSE IF Includes(errorMessage, <<"Guardian Intel API Error (", "4", "0", "4", ")">>)
     THEN McpError("InvalidParams", <<"Tag not found">>)
     ELSE IF Includes(errorMessage, <<"Guardian Intel API Error (", "5", "0", "3", ")">>)
     THEN McpError("InternalError", <<"Guardian Intel service temporarily unavailable">>)
     ELSE IF Includes(errorMessage, <<"timeout">>)
     THEN McpError("InternalError",
                   <<"Request timeout - Guardian Intel API is not responding">>)
     ELSE IF Includes(errorMessage, <<"Unable to connect">>)
     THEN McpError("InternalError", <<"Unable to connect to Guardian Intel API">>)
     ELSE McpError("InternalError", <<"Tool execution failed: ">> \o errorMessage)

----------------------------------------------------------------------------
(* Actions *)

\* new GuardianIntelClient({apiKey, baseUrl})
Construct(keys) ==
  /\ client.status = "none"
  /\ \E k \in keys, u \in BaseUrls :
       client' = constructor(build, [apiKey |-> k, baseUrl |-> u])
  /\ UNCHANGED <<build, call, tool, promises, server, paging>>

\* client.lookupIp(ip), up to the await of the request
LookupIp(ips) ==
  /\ CanCall
  /\ \E ip \in ips :
       call' = Started([IdleCall EXCEPT !.op = "lookupIp", !.ip = ip], lookupIpPre(ip))
  /\ UNCHANGED <<build, client, tool, promises, server, paging>>

\* client.getTags(includeDescriptions)
GetTags ==
  /\ CanCall
  /\ \E d \in BOOLEAN :
       call' = Started([IdleCall EXCEPT !.op = "getTags", !.includeDescriptions = d],
                       getTagsPre(d))
  /\ UNCHANGED <<build, client, tool, promises, server, paging>>

\* client.getTagDetails(tagName)
GetTagDetails(tags) ==
  /\ CanCall
  /\ \E tg \in tags :
       call' = Started([IdleCall EXCEPT !.op = "getTagDetails", !.tagName = tg],
                       getTagDetailsPre(tg))
  /\ UNCHANGED <<build, client, tool, promises, server, paging>>

\* client.getTagIps(tagName, options)
GetTagIps(tags, opts) ==
  /\ CanCall
  /\ \E tg \in tags, o \in opts :
       call' = Started([IdleCall EXCEPT !.op = "getTagIps", !.tagName = tg, !.options = o],
                       getTagIpsPre(tg, o))
  /\ UNCHANGED <<build, client, tool, promises, server, paging>>

\* the awaited request is answered with a 2xx
Resolve(bodies) ==
  /\ call.pc = "awaiting"
  /\ \E d \in bodies :
       LET r == onFulfilled(build, call, d)
       IN call' = [call EXCEPT !.pc = "done", !.answer = d, !.via = "response",
                               !.settled = IF r.thrown THEN "rejected" ELSE "resolved",
                               !.error = r.error, !.value = r.value]
  /\ UNCHANGED <<build, client, tool, promises, server, paging>>

\* faulty client: a failed request is issued once more before the failure
\* is surfaced
RejectAndRetry(failures) ==
  /\ call.pc = "awaiting"
  /\ \E e \in failures :
       IF Len(call.requests) < 2
       THEN call' = [call EXCEPT !.requests = Append(@, @[1])]
       ELSE call' = [call EXCEPT !.pc = "done", !.failure = e, !.via = "failure",
                                 !.settled = "rejected",
                                 !.error = onRejected(build, client.axios, e)]
  /\ UNCHANGED <<build, client, tool, promises, server, paging>>

\* the awaited request fails: the interceptor throws handleApiError(error),
\* and the operation's catch rethrows it
Reject(failures) ==
  /\ call.pc = "awaiting"
  /\ \E e \in failures :
       call' = [call EXCEPT !.pc = "done", !.failure = e, !.via = "failure",
                            !.settled = "rejected",
                            !.error = onRejected(build, client.axios, e)]
  /\ UNCHANGED <<build, client, tool, promises, server, paging>>

\* the caller has taken the outcome; the client is free for the next call
Release ==
  /\ call.pc = "done"
  /\ call' = IdleCall
  /\ UNCHANGED <<build, client, tool, promises, server, paging>>

\* client.healthCheck(), up to the await of its probe
HealthCheck ==
  /\ CanCall
  /\ call' = [Started([IdleCall EXCEPT !.op = "healthCheck"], healthCheckPre)
               EXCEPT !.pc = "probing"]
  /\ UNCHANGED <<build, client, tool, promises, server, paging>>

\* the probe is answered with a 2xx: healthCheck returns true
HealthCheckAnswered(bodies) ==
  /\ call.pc = "probing"
  /\ \E d \in bodies :
       call' = [call EXCEPT !.pc = "done", !.answer = d, !.via = "response",
                            !.settled = "resolved", !.value = BoolValue(TRUE)]
  /\ UNCHANGED <<build, client, tool, promises, server, paging>>

\* the probe fails: the interceptor throws and healthCheck's catch takes it
HealthCheckFailed(failures) ==
  /\ call.pc = "probing"
  /\ \E e \in failures :
       LET r == healthCheckCatch(build, client.axios, e)
       IN call' = [call EXCEPT !.pc = "done", !.failure = e, !.via = "failure",
                               !.settled = IF r.thrown THEN "rejected" ELSE "resolved",
                               !.error = r.error, !.value = r.value]
  /\ UNCHANGED <<build, client, tool, promises, server, paging>>

\* tools.executeTool(name, args) on the real client, up to the await of the
\* handler's client call; an unknown name is thrown and caught at once
ExecuteTool(invocations) ==
  /\ CanCall /\ tool.pc = "idle"
  /\ \E inv \in invocations :
       LET started == [IdleTool EXCEPT !.name = inv[1], !.args = inv[2], !.client = "real"]
       IN IF route(inv[1]) = "none"
          THEN /\ tool' = [started EXCEPT !.pc = "done", !.settled = "rejected",
                                          !.error = wrapError(build, TRUE, S(MsgUnknownTool(inv[1])))]
               /\ call' = call
          ELSE /\ tool' = [started EXCEPT !.pc = "awaiting"]
               /\ call' = invoke(route(inv[1]), inv[2])
  /\ UNCHANGED <<build, client, promises, server, paging>>

\* the client call of the handler has settled: the handler goes on, or the
\* catch of executeTool takes what the client threw (always an Error)
ToolSettle ==
  /\ tool.pc = "awaiting" /\ tool.client = "real" /\ call.pc = "done"
  /\ tool' = settleTool(build, tool,
                        Settlement(call.settled, TRUE, S(call.error), call.value))
  /\ UNCHANGED <<build, client, call, promises, server, paging>>

\* tools.executeTool(name, args) on tools built around a stub of the client
ExecuteToolOnStub(invocations) ==
  /\ call.pc = "idle" /\ tool.pc = "idle"
  /\ \E inv \in invocations :
       LET started == [IdleTool EXCEPT !.name = inv[1], !.args = inv[2], !.client = "stub"]
       IN tool' = IF route(inv[1]) = "none"
                  THEN [started EXCEPT !.pc = "done", !.settled = "rejected",
                                       !.error = wrapError(build, TRUE, S(MsgUnknownTool(inv[1])))]
                  ELSE [started EXCEPT !.pc = "awaiting"]
  /\ UNCHANGED <<build, client, call, promises, server, paging>>

\* the stub settles as it was told to: it resolves to a value of the shape
\* the handler expects (a list of tags, a page of entries, or an object), or
\* rejects with any value
StubSettle(thrown, bodies) ==
  /\ tool.pc = "awaiting" /\ tool.client = "stub"
  /\ \/ \E x \in thrown :
          tool' = settleTool(build, tool, Settlement("rejected", x[1], x[2], NoValue))
     \/ \E d \in bodies :
          /\ CASE tool.name = "guardian_intel_tags_list" -> d.result = "array"
               [] tool.name = "guardian_intel_tag_ips" -> d.entries.t = "array"
               [] OTHER -> d.result = "object" /\ d.entries.t = "undefined"
          /\ tool' = settleTool(build, tool,
                    Settlement("resolved", FALSE, Undef,
                               [kind |-> IF build = "src" THEN "wrapper" ELSE "unwrapped",
                                of |-> d]))
  /\ UNCHANGED <<build, client, call, promises, server, paging>>

\* the caller has taken the outcome of executeTool
ToolRelease ==
  /\ tool.pc = "done"
  /\ tool' = IdleTool
  /\ call' = IdleCall
  /\ UNCHANGED <<build, client, promises, server, paging>>

\* one more client.lookupIp(ip) is started while others are in flight, as in
\* promises = [client.lookupIp(a), client.lookupIp(b), ...]
StartLookup(ips) ==
  /\ client.status = "ready"
  /\ \E i \in 1..MaxCalls, ip \in ips :
       /\ promises[i].pc = "idle"
       /\ promises' = [promises EXCEPT
                         ![i] = Started([IdleCall EXCEPT !.op = "lookupIp", !.ip = ip],
                                        lookupIpPre(ip))]
  /\ UNCHANGED <<build, client, call, tool, server, paging>>

\* the request of one of the calls in flight is answered with a 2xx
LookupAnswered(bodies) ==
  /\ \E i \in 1..MaxCalls, d \in bodies :
       /\ promises[i].pc = "awaiting"
       /\ LET r == onFulfilled(build, promises[i], d)
          IN promises' = [promises EXCEPT
                            ![i] = [@ EXCEPT !.pc = "done", !.answer = d, !.via = "response",
                                             !.settled = IF r.thrown THEN "rejected" ELSE "resolved",
                                             !.error = r.error, !.value = r.value]]
  /\ UNCHANGED <<build, client, call, tool, server, paging>>

\* a failed attempt that rejects every call in flight, not only its own
LookupFailedForAll(failures) ==
  /\ \E i \in 1..MaxCalls, e \in failures :
       /\ promises[i].pc = "awaiting"
       /\ promises' = [j \in 1..MaxCalls |->
                         IF promises[j].pc = "awaiting"
                         THEN [promises[j] EXCEPT !.pc = "done", !.via = "failure",
                                                  !.settled = "rejected",
                                                  !.failure = IF j = i THEN e ELSE @,
                                                  !.error = onRejected(build, client.axios, e)]
                         ELSE promises[j]]
  /\ UNCHANGED <<build, client, call, tool, server, paging>>

\* the request of one of the calls in flight fails
LookupFailed(failures) ==
  /\ \E i \in 1..MaxCalls, e \in failures :
       /\ promises[i].pc = "awaiting"
       /\ promises' = [promises EXCEPT
                         ![i] = [@ EXCEPT !.pc = "done", !.failure = e, !.via = "failure",
                                          !.settled = "rejected",
                                          !.error = onRejected(build, client.axios, e)]]
  /\ UNCHANGED <<build, client, call, tool, server, paging>>

\* Promise.allSettled(promises): every call started has settled, and the
\* caller takes the outcomes
AllSettled ==
  /\ \A i \in 1..MaxCalls : promises[i].pc \in {"idle", "done"}
  /\ \E i \in 1..MaxCalls : promises[i].pc = "done"
  /\ promises' = [i \in 1..MaxCalls |-> IdleCall]
  /\ UNCHANGED <<build, client, call, tool, server, paging>>

\* server.run(), up to the await of healthCheck on the real client
Run ==
  /\ server.pc = "created" /\ CanCall
  /\ call' = [Started([IdleCall EXCEPT !.op = "healthCheck"], healthCheckPre)
               EXCEPT !.pc = "probing"]
  /\ server' = [server EXCEPT !.pc = "probing"]
  /\ UNCHANGED <<build, client, tool, promises, paging>>

\* healthCheck has settled: run() goes on
RunProbed ==
  /\ server.pc = "probing" /\ call.pc = "done"
  /\ server' = afterProbe(server, IF call.settled = "rejected" THEN "threw"
                                  ELSE call.value.kind)
  /\ call' = IdleCall
  /\ UNCHANGED <<build, client, tool, promises, paging>>

\* server.run() on a mock of the client, whose healthCheck ends as told
RunOnMock(outcomes) ==
  /\ server.pc = "created" /\ call.pc = "idle"
  /\ \E o \in outcomes : server' = afterProbe(server, o)
  /\ UNCHANGED <<build, client, call, tool, promises, paging>>

\* await this.server.connect(transport)
Connect ==
  /\ server.pc = "connecting"
  /\ server' = [server EXCEPT !.pc = "running", !.connected = TRUE]
  /\ UNCHANGED <<build, client, call, tool, promises, paging>>

\* the list-tools handler: { tools: getToolDefinitions() }
ListTools ==
  /\ server.pc = "running" /\ tool.pc = "idle"
  /\ server' = [server EXCEPT !.pc = "replied", !.tools = "real",
                              !.reply = [NoReply EXCEPT !.kind = "tools",
                                                        !.catalog = getToolDefinitions]]
  /\ UNCHANGED <<build, client, call, tool, promises, paging>>

\* the call-tool handler after its await of executeTool on the real tools:
\* it returns one text item with JSON.stringify(result, null, 2), kept here
\* as the result it writes out, or its catch block takes the Error thrown
CallToolSettle ==
  /\ server.pc = "running" /\ tool.pc = "done"
  /\ server' = [server EXCEPT
                  !.pc = "replied", !.tools = "real",
                  !.reply = IF tool.settled = "rejected"
                            THEN callToolCatch(TRUE, S(tool.error))
                            ELSE [NoReply EXCEPT !.kind = "content", !.items = 1,
                                                 !.text = tool.result]]
  /\ UNCHANGED <<build, client, call, tool, promises, paging>>

\* the call-tool handler on a mock of the tools, whose executeTool rejects
\* with what it was told to
CallToolOnMock(thrown) ==
  /\ server.pc = "running" /\ tool.pc = "idle"
  /\ \E x \in thrown :
       server' = [server EXCEPT !.pc = "replied", !.tools = "mock", !.rejection = x,
                                !.reply = callToolCatch(x[1], x[2])]
  /\ UNCHANGED <<build, client, call, tool, promises, paging>>

\* the protocol caller has taken the reply
Respond ==
  /\ server.pc = "replied"
  /\ server' = [server EXCEPT !.pc = "running", !.tools = "none",
                              !.rejection = IdleServer.rejection, !.reply = NoReply]
  /\ tool' = IdleTool
  /\ call' = IdleCall
  /\ UNCHANGED <<build, client, promises, paging>>

----------------------------------------------------------------------------
(* Specifications *)

\* every operation, on a few inputs of each kind
Next ==
  \/ Construct(ApiKeys)
  \/ LookupIp(SomeIps)
  \/ GetTags
  \/ GetTagDetails(SomeTags)
  \/ GetTagIps(SomeTags, SomeOptions)
  \/ Resolve(Bodies)
  \/ Reject(SomeFailures)
  \/ Release

Spec == Init /\ [][Next]_vars

\* lookupIp on every candidate address
NextIp ==
  \/ Construct({S(<<"k">>)})
  \/ LookupIp(AllIps)
  \/ Resolve({Body("object", "object")})
  \/ Reject(SomeFailures)
  \/ Release

SpecIp == Init /\ [][NextIp]_vars

\* the tag operations on every tag name and paging option
NextPage ==
  \/ Construct({S(<<"k">>)})
  \/ GetTagDetails(TagNames)
  \/ GetTagIps(TagNames, PageOptions)
  \/ Resolve({Body("object", "object")})
  \/ Reject(SomeFailures)
  \/ Release

SpecPage == Init /\ [][NextPage]_vars

\* every failed attempt
NextErr ==
  \/ Construct({S(<<"k">>)})
  \/ LookupIp({Ip1234})
  \/ GetTags
  \/ GetTagDetails({S(<<"a">>)})
  \/ GetTagIps({S(<<"a">>)}, {NoOptions})
  \/ Reject(Failures)
  \/ Release

SpecErr == Init /\ [][NextErr]_vars

\* the health probe, on every answer and every failed attempt
NextHealth ==
  \/ Construct(ApiKeys)
  \/ HealthCheck
  \/ HealthCheckAnswered(Bodies)
  \/ HealthCheckFailed(Failures)
  \/ Release

SpecHealth == Init /\ [][NextHealth]_vars

\* the tool dispatcher, on the real client and on a stub of it
NextTools ==
  \/ Construct({S(<<"k">>)})
  \/ ExecuteTool(Invocations)
  \/ Resolve(ToolBodies)
  \/ Reject(SomeFailures)
  \/ ToolSettle
  \/ ExecuteToolOnStub(Invocations)
  \/ StubSettle(StubThrown, StubBodies)
  \/ ToolRelease

SpecTools == Init /\ [][NextTools]_vars

\* lookups in flight together, answered and failing in any order
NextTogether ==
  \/ Construct({S(<<"k">>)})
  \/ StartLookup(Together.ips)
  \/ LookupAnswered(Together.bodies)
  \/ LookupFailed(Together.failures)
  \/ AllSettled

SpecTogether == Init /\ [][NextTogether]_vars

\* the server's start: run() on the real client and on a mock of it
NextRun ==
  \/ Construct(ApiKeys)
  \/ Run
  \/ HealthCheckAnswered(Bodies)
  \/ HealthCheckFailed(SomeFailures)
  \/ RunProbed
  \/ RunOnMock(ProbeOutcomes)
  \/ Connect

\* every await of run() settles: the probe has a timeout of its own (5000
\* ms), and the transport connects
SpecRun ==
  /\ Init /\ [][NextRun]_vars
  /\ WF_vars(HealthCheckAnswered(Bodies) \/ HealthCheckFailed(SomeFailures))
  /\ WF_vars(RunProbed)
  /\ WF_vars(Connect)

\* the call-tool handler of a running server, on the real tools and client
\* and on a mock of the tools
NextServer ==
  \/ Construct({S(<<"k">>)})
  \/ RunOnMock({"true"})
  \/ Connect
  \/ ListTools
  \/ (server.pc = "running" /\ ExecuteTool(Invocations))
  \/ Resolve(StubBodies)
  \/ Reject(SomeFailures)
  \/ ToolSettle
  \/ CallToolSettle
  \/ CallToolOnMock(MockThrown)
  \/ Respond

SpecServer == Init /\ [][NextServer]_vars

----------------------------------------------------------------------------
(* Vocabulary of the properties *)

RECURSIVE Split(_, _)
\* the parts of s between occurrences of the character sep
Split(s, sep) ==
  IF \A i \in 1..Len(s) : s[i] # sep THEN <<s>>
  ELSE LET k == CHOOSE i \in 1..Len(s) : s[i] = sep /\ \A j \in 1..(i - 1) : s[j] # sep
       IN <<SubSeq(s, 1, k - 1)>> \o Split(SubSeq(s, k + 1, Len(s)), sep)

Contains(s, c) == \E i \in 1..Len(s) : s[i] = c
AllIn(s, cls) == \A i \in 1..Len(s) : s[i] \in cls

DigitValue(c) == CHOOSE d \in 0..9 : Digits[d + 1] = c

RECURSIVE DecimalValue(_)
DecimalValue(s) ==
  IF s = <<>> THEN 0
  ELSE 10 * DecimalValue(SubSeq(s, 1, Len(s) - 1)) + DigitValue(s[Len(s)])

\* a decimal octet 0..255 written without leading zeros
StrictOctet(p) ==
  /\ Len(p) \in 1..3
  /\ AllIn(p, DigitChars)
  /\ (Len(p) = 1 \/ p[1] # "0")
  /\ DecimalValue(p) <= 255

\* exactly four strict octets separated by dots
StrictDottedQuad(s) ==
  LET parts == Split(s, ".")
  IN Len(parts) = 4 /\ \A k \in 1..4 : StrictOctet(parts[k])

\* eight groups of 1 to 4 hex digits separated by colons
FullIPv6(s) ==
  LET parts == Split(s, ":")
  IN Len(parts) = 8 /\ \A k \in 1..8 : Len(parts[k]) \in 1..4 /\ AllIn(parts[k], HexChars)

ValidationMessages == {MsgInvalidIp, MsgTagRequired, MsgLimitExceeded, MsgBadPaging}

\* the call in progress went past validation and issued its request
Accepted == call.pc # "idle" /\ call.via # "validation" /\ Len(call.requests) = 1
\* the call in progress failed validation with message msg, before any request
RejectedWith(msg) ==
  /\ call.pc = "done" /\ call.via = "validation" /\ call.settled = "rejected"
  /\ call.error = msg /\ call.requests = <<>>

----------------------------------------------------------------------------
(* C1: a call of lookupIp, getTagDetails or getTagIps that fails with one   *)
(* of the pre-flight validation messages has issued no HTTP request.       *)
C1_ValidationBeforeNetwork ==
  (call.op \in {"lookupIp", "getTagDetails", "getTagIps"}
     /\ call.settled = "rejected" /\ call.error \in ValidationMessages)
  => (call.requests = <<>> /\ call.via = "validation")

\* a getTagIps call refused for its limit, with no request issued
C1_Witness ==
  call.op = "getTagIps" /\ call.pc = "done" /\ call.error = MsgLimitExceeded
    /\ call.requests = <<>>

----------------------------------------------------------------------------
(* C2: getTagIps reports the first failing check, in the order tag name,   *)
(* limit above 10000, then negative offset or limit below 1; otherwise the *)
(* request is issued. For integer inputs and a non-blank tag the call is   *)
(* accepted exactly when offset >= 0 and 1 <= limit <= 10000.              *)

\* the tag name is missing, empty or made of white space only
BlankTag(tg) == tg.t = "undefined" \/ AllIn(tg.s, WhiteSpace)
\* the offset and limit in force, in tenths: the defaults are 0 and 1000
OffsetOf(o) == IF o.offset.t = "undefined" THEN 0 ELSE o.offset.n
LimitOf(o) == IF o.limit.t = "undefined" THEN 10000 ELSE o.limit.n
IsInteger(k) == k % 10 = 0

C2_FirstFailingCheck ==
  (call.op = "getTagIps" /\ call.pc # "idle") =>
    LET off == OffsetOf(call.options)
        lim == LimitOf(call.options)
    IN /\ BlankTag(call.tagName) => RejectedWith(MsgTagRequired)
       /\ (~BlankTag(call.tagName) /\ lim > 100000) => RejectedWith(MsgLimitExceeded)
       /\ (~BlankTag(call.tagName) /\ lim <= 100000 /\ (off < 0 \/ lim < 10))
            => RejectedWith(MsgBadPaging)
       /\ (~BlankTag(call.tagName) /\ IsInteger(off) /\ IsInteger(lim))
            => (Accepted <=> (off >= 0 /\ lim >= 10 /\ lim <= 100000))

\* offset = -1 with limit = 20000 reports the limit message
C2_Witness ==
  /\ call.op = "getTagIps" /\ ~BlankTag(call.tagName)
  /\ call.options.offset = I(-1) /\ call.options.limit = I(20000)
  /\ RejectedWith(MsgLimitExceeded)

----------------------------------------------------------------------------
(* C3: the offset and limit query parameters of every request issued by    *)
(* getTagIps are the string forms of integers, fractional inputs being     *)
(* truncated toward zero (5.7 is sent as "5", 100.9 as "100").             *)
C3_ParamsAreIntegers ==
  (call.op = "getTagIps" /\ Accepted) =>
    /\ AllIn(call.requests[1].params.offset.s, DigitChars)
    /\ AllIn(call.requests[1].params.limit.s, DigitChars)

----------------------------------------------------------------------------
(* C4: lookupIp accepts a dotted candidate if and only if it is exactly    *)
(* four decimal octets, each in 0..255 and written without leading zeros;  *)
(* every other one fails with "Invalid IP address format".                 *)
C4_StrictIPv4 ==
  (call.op = "lookupIp" /\ call.pc # "idle" /\ ~Contains(call.ip, ":")) =>
    /\ StrictDottedQuad(call.ip) => Accepted
    /\ ~StrictDottedQuad(call.ip) => RejectedWith(MsgInvalidIp)

----------------------------------------------------------------------------
(* C5: lookupIp accepts a candidate holding a colon if and only if it is   *)
(* the full form of eight groups of 1 to 4 hex digits, or "::" or "::1";   *)
(* every other one fails with "Invalid IP address format" and no request.  *)
C5_FullFormIPv6Only ==
  (call.op = "lookupIp" /\ call.pc # "idle" /\ Contains(call.ip, ":")) =>
    LET ok == FullIPv6(call.ip) \/ call.ip = <<":", ":">> \/ call.ip = <<":", ":", "1">>
    IN /\ ok => Accepted
       /\ ~ok => RejectedWith(MsgInvalidIp)

\* an abbreviated address (an empty group between two colons, other than
\* the two literals) has been refused
C5_Witness ==
  /\ call.op = "lookupIp" /\ RejectedWith(MsgInvalidIp)
  /\ \E i \in 1..(Len(call.ip) - 1) : call.ip[i] = ":" /\ call.ip[i + 1] = ":"
  /\ Len(Split(call.ip, ":")) = 8
  /\ AllIn(call.ip, HexChars \cup {":"})

----------------------------------------------------------------------------
(* C6: constructing the client with an empty or white-space-only apiKey    *)
(* fails: no client instance, no HTTP configuration, no network activity.  *)
C6_BlankKeyFails ==
  (client.status # "none" /\ (client.apiKey.t = "undefined" \/ AllIn(client.apiKey.s, WhiteSpace)))
    => (client.status = "failed" /\ ~client.axios.created /\ call = IdleCall)

----------------------------------------------------------------------------
(* Normalized messages *)

\* m has the shape `Guardian Intel API Error (<code>): <message>`
IsCoded(m) ==
  /\ Len(m) >= 4 /\ m[1] = "Guardian Intel API Error ("
  /\ \E i \in 2..(Len(m) - 1) : m[i] = ")" /\ m[i + 1] = ": "

\* m is `Guardian Intel API Error (<code>): ` followed by some message
IsCodedWith(m, code) ==
  LET head == <<"Guardian Intel API Error (">> \o code \o <<")", ": ">>
  IN Len(m) > Len(head) /\ SubSeq(m, 1, Len(head)) = head

RECURSIVE FirstPresent(_)
\* the first value of vs that is present (not undefined, empty or zero)
FirstPresent(vs) ==
  IF vs = <<>> THEN Undef
  ELSE IF Truthy(Head(vs)) THEN Head(vs) ELSE FirstPresent(Tail(vs))

\* the call in progress ended by a failed attempt
FailedAttempt == call.pc = "done" /\ call.via = "failure"

WellKnownStatuses == { I(401), I(403), I(404), I(429), I(500), I(503) }

----------------------------------------------------------------------------
(* C7: a failed attempt whose response carries a structured body is        *)
(* reported as `Guardian Intel API Error (<code>): <message>`, whatever    *)
(* network code it also carries; the timeout and connection messages are   *)
(* produced only when no response was received at all.                     *)
C7_ResponseBeforeNetwork ==
  FailedAttempt =>
    /\ (call.failure.response /\ call.failure.data.kind = "object") => IsCoded(call.error)
    /\ call.error \in {MsgTimeout, MsgUnableToConnect} => ~call.failure.response

----------------------------------------------------------------------------
(* C8: with a structured body, the message text is the first present of    *)
(* the body's message, error, detail, description, then the status text,   *)
(* and the code the first present of the body's statusCode, the body's     *)
(* code, the HTTP status, then "Unknown".                                  *)
C8_FirstPresentFields ==
  LET e == call.failure
      text == FirstPresent(<<e.data.f["message"], e.data.f["error"], e.data.f["detail"],
                             e.data.f["description"], e.statusText>>)
      code == FirstPresent(<<e.data.f["statusCode"], e.data.f["code"], e.status,
                             S(<<"Unknown">>)>>)
  IN (FailedAttempt /\ e.response /\ e.data.kind = "object" /\ Truthy(text))
       => call.error = MsgCoded(ToStr(code), ToStr(text))

----------------------------------------------------------------------------
(* C9: with no body but a known HTTP status, the message is                *)
(* `Guardian Intel API Error (<status>): <text>`, the text being fixed for *)
(* 401, 403, 404, 429, 500 and 503 and the status text or "HTTP error"     *)
(* for any other status.                                                   *)
C9_StatusWithoutBody ==
  LET e == call.failure
  IN (FailedAttempt /\ e.response /\ ~DataTruthy(e.data) /\ Truthy(e.status)) =>
       /\ IsCodedWith(call.error, ToStr(e.status))
       /\ e.status \notin WellKnownStatuses =>
            call.error = MsgCoded(ToStr(e.status),
                                  IF Truthy(e.statusText) THEN e.statusText.s
                                  ELSE <<"HTTP error">>)

----------------------------------------------------------------------------
(* C10: when no response was received, ECONNREFUSED and ENOTFOUND give     *)
(* exactly "Unable to connect to Guardian Intel API", ECONNABORTED exactly *)
(* "Guardian Intel API request timeout", whatever the error text, and any  *)
(* other failure `Guardian Intel API Error: <raw failure message>`.        *)
C10_NetworkFailures ==
  (FailedAttempt /\ ~call.failure.response) =>
    LET e == call.failure
    IN call.settled = "rejected" /\ call.error =
         (CASE e.code \in {S(<<"ECONNREFUSED">>), S(<<"ENOTFOUND">>)} -> MsgUnableToConnect
            [] e.code = S(<<"ECONNABORTED">>) -> MsgTimeout
            [] OTHER -> <<"Guardian Intel API Error: ">> \o e.message)

\* a refused connection whose raw text speaks of a timeout is reported as a
\* connection failure
C10_Witness ==
  /\ FailedAttempt /\ ~call.failure.response
  /\ call.failure.code = S(<<"ECONNREFUSED">>)
  /\ call.failure.message = <<"timeout", " of 30000ms exceeded">>
  /\ call.error = MsgUnableToConnect

----------------------------------------------------------------------------
(* The compiled build alone satisfies C6 to C9: each of them is violated   *)
(* only by the TypeScript source, whose constructor and handleApiError     *)
(* lack the apiKey check, the field fallbacks and the status switch.       *)
CompiledBuildAgrees ==
  build = "dist" =>
    /\ C6_BlankKeyFails
    /\ C7_ResponseBeforeNetwork
    /\ C8_FirstPresentFields
    /\ C9_StatusWithoutBody

----------------------------------------------------------------------------
(* C11: healthCheck never raises. It issues exactly one request, the GET   *)
(* /tags probe; it returns true on any answer and false on every failed    *)
(* attempt (HTTP error, timeout, connection failure).                      *)
C11_HealthCheckNeverRaises ==
  (call.op = "healthCheck" /\ call.pc # "idle") =>
    /\ Len(call.requests) = 1 /\ call.requests[1].path = <<"/tags">>
    /\ call.settled # "rejected" /\ call.error = <<>>
    /\ call.pc = "done" =>
         /\ call.settled = "resolved"
         /\ call.via = "response" => call.value.kind = "true"
         /\ call.via = "failure" => call.value.kind = "false"

\* a probe that timed out has returned false
C11_Witness ==
  /\ call.op = "healthCheck" /\ call.pc = "done" /\ call.via = "failure"
  /\ ~call.failure.response /\ call.failure.code = S(<<"ECONNABORTED">>)
  /\ call.settled = "resolved" /\ call.value.kind = "false"

----------------------------------------------------------------------------
(* C12: executeTool with a name that is none of the four tool names fails  *)
(* with exactly `Tool execution failed: Unknown tool: <name>`, and calls   *)
(* no client operation: no request is issued.                              *)
C12_UnknownTool ==
  (tool.pc # "idle" /\ tool.name \notin ToolNames) =>
    /\ tool.pc = "done" /\ tool.settled = "rejected"
    /\ tool.error = <<"Tool execution failed: ", "Unknown tool: ", tool.name>>
    /\ call = IdleCall

\* unknown_tool has been refused by tools that hold the real client
C12_Witness ==
  /\ tool.name = "unknown_tool" /\ tool.client = "real" /\ client.status = "ready"
  /\ tool.pc = "done" /\ tool.settled = "rejected" /\ call.requests = <<>>

----------------------------------------------------------------------------
(* C13: when the client operation of a tool fails, executeTool rejects     *)
(* with `Tool execution failed: ` followed by the original message, word   *)
(* for word; if what was thrown is not an Error, by its string form (a     *)
(* rejected 'String error' gives `Tool execution failed: String error`).   *)
C13_FailureKeptVerbatim ==
  (tool.pc = "done" /\ tool.awaited.settled = "rejected") =>
    /\ tool.settled = "rejected"
    /\ tool.error = <<"Tool execution failed: ">> \o ToStr(tool.awaited.thrown)

----------------------------------------------------------------------------
(* C14: in every tag_ips result, pagination.returned is the number of IPs  *)
(* in ip_addresses, and has_more holds exactly when offset + returned is   *)
(* below total (total 7, offset 5, returned 2: no more).                   *)
C14_Pagination ==
  (tool.pc = "done" /\ tool.result.kind = "tag_ips") =>
    LET r == tool.result
    IN /\ r.ip_addresses.t = "array" /\ r.returned = Len(r.ip_addresses.s)
       /\ r.has_more <=> (r.total.t = "number" /\ r.offset.n + r.returned * 10 < r.total.n)

\* the last two of seven entries, asked from offset 5 of the real client
C14_Witness ==
  /\ tool.pc = "done" /\ tool.result.kind = "tag_ips" /\ tool.client = "real"
  /\ tool.result.total = I(7) /\ tool.result.offset = I(5) /\ tool.result.returned = 2
  /\ ~tool.result.has_more

----------------------------------------------------------------------------
(* C15: in every tags_list result each returned tag is counted once in the *)
(* categories histogram and once in the intents histogram, a tag without   *)
(* category or intent under a catch-all key: the counts of each histogram  *)
(* sum to total_tags, whether includeDescriptions is set or not.           *)

RECURSIVE SumCounts(_)
\* the sum of the counts of a histogram
SumCounts(h) == IF h = <<>> THEN 0 ELSE h[1].count + SumCounts(Tail(h))

\* the count of histogram h under key, 0 when the key is not there
CountOf(h, key) ==
  IF \E i \in 1..Len(h) : h[i].key = key
  THEN h[CHOOSE i \in 1..Len(h) : h[i].key = key].count
  ELSE 0

C15_Histograms ==
  (tool.pc = "done" /\ tool.result.kind = "tags_list") =>
    LET r == tool.result
        tags == tool.awaited.value.of.tags
    IN /\ r.total_tags = Len(tags)
       /\ SumCounts(r.categories) = r.total_tags
       /\ SumCounts(r.intents) = r.total_tags
       /\ \A i \in 1..Len(tags) :
            /\ tags[i].category.t = "string" =>
                 CountOf(r.categories, tags[i].category.s)
                   = Cardinality({ j \in 1..Len(tags) : tags[j].category = tags[i].category })
            /\ tags[i].intent.t = "string" =>
                 CountOf(r.intents, tags[i].intent.s)
                   = Cardinality({ j \in 1..Len(tags) : tags[j].intent = tags[i].intent })

----------------------------------------------------------------------------
(* C16: the pattern of ip in the schema of the lookup tool agrees with the *)
(* validation of the client: a string satisfies the pattern if and only if *)
(* lookupIp accepts it, "::" and "::1" included.                           *)
C16_PatternMatchesClient ==
  (call.op = "lookupIp" /\ call.pc # "idle") => (ipPattern(call.ip) <=> Accepted)

----------------------------------------------------------------------------
(* C17: arguments that satisfy the input schema of tag_details or tag_ips  *)
(* (tagName a string of length >= 1, offset a number >= 0, limit a number  *)
(* from 1 to 10000) pass the pre-flight validation of the client.          *)
C17_SchemaIsSound ==
  (call.op \in {"getTagDetails", "getTagIps"} /\ call.pc # "idle"
     /\ tagSchema(call.tagName, call.options)) => Accepted

----------------------------------------------------------------------------
(* C18: lookups in flight together are isolated. Whatever the order in     *)
(* which they are started, answered and failed, the outcome of each call   *)
(* is the one its own address and its own answer or failure give; a step   *)
(* of one call leaves every other call as it was, so that a failure of one *)
(* never fails or drops another, nor hands it another's result.            *)

\* call c has ended as its own address, answer or failure make it end
OwnOutcome(c) ==
  CASE c.via = "validation" ->
         ~isValidIpAddress(c.ip) /\ c.settled = "rejected" /\ c.error = MsgInvalidIp
           /\ c.requests = <<>>
    [] c.via = "response" ->
         LET r == onFulfilled(build, c, c.answer)
         IN /\ c.settled = (IF r.thrown THEN "rejected" ELSE "resolved")
            /\ c.error = r.error /\ c.value = r.value /\ c.failure = NoFailure
    [] OTHER ->
         /\ c.settled = "rejected" /\ c.failure # NoFailure /\ c.value = NoValue
         /\ c.error = onRejected(build, client.axios, c.failure)

\* a step changes one call at most, unless the caller takes all outcomes;
\* a call in flight stays in flight until it settles
OneAtATime ==
  \/ promises' = [i \in 1..MaxCalls |-> IdleCall]
  \/ \A i \in 1..MaxCalls :
       /\ promises'[i] # promises[i] =>
            \A j \in 1..MaxCalls : j # i => promises'[j] = promises[j]
       /\ promises[i].pc = "awaiting" =>
            /\ promises'[i].pc \in {"awaiting", "done"}
            /\ promises'[i].ip = promises[i].ip /\ promises'[i].requests = promises[i].requests

C18_Isolated ==
  /\ [](\A i \in 1..MaxCalls : promises[i].pc = "done" => OwnOutcome(promises[i]))
  /\ [][OneAtATime]_vars

\* of three calls one was refused, one failed and one, still answered after
\* that failure, resolved
C18_Witness ==
  \E i, j, k \in 1..MaxCalls :
    /\ promises[i].pc = "done" /\ promises[i].via = "validation"
    /\ promises[j].pc = "done" /\ promises[j].via = "failure"
    /\ promises[k].pc = "done" /\ promises[k].settled = "resolved"
    /\ promises[k].ip # promises[j].ip


----------------------------------------------------------------------------
\* a step that hands a request to axios
IssuesRequest == Len(call'.requests) > 0 /\ call'.requests # call.requests

\* C19: no retries. An invocation of lookupIp, getTags, getTagDetails or
\* getTagIps, made by the handler of a tool, hands at most one request to
\* axios, and only when it starts; a failed request settles the invocation
\* as rejected with the error made from that failure, and the tool
\* invocation around it as rejected with that error's message, with still
\* exactly one request issued.
C19_NoRetries ==
  /\ [](/\ Len(call.requests) <= 1
        /\ call.via = "failure" =>
             /\ call.pc = "done" /\ call.settled = "rejected"
             /\ Len(call.requests) = 1
             /\ call.error = onRejected(build, client.axios, call.failure)
        /\ (tool.pc = "done" /\ tool.client = "real" /\ call.via = "failure") =>
             /\ tool.settled = "rejected"
             /\ tool.error = MsgToolFailed(call.error))
  /\ [][IssuesRequest => (call.pc = "idle" /\ tool.pc = "idle")]_vars

\* a tag_ips invocation whose one request failed and which has been settled
C19_Witness ==
  /\ tool.pc = "done" /\ tool.client = "real"
  /\ tool.name = "guardian_intel_tag_ips"
  /\ call.op = "getTagIps" /\ call.via = "failure"
  /\ Len(call.requests) = 1
  /\ tool.settled = "rejected"


----------------------------------------------------------------------------
\* the number, in tenths, that a decimal numeral without sign denotes
ParseTenths(s) ==
  LET parts == Split(s, ".")
  IN IF Len(parts) = 1 THEN 10 * DecimalValue(parts[1])
     ELSE 10 * DecimalValue(parts[1]) + DecimalValue(parts[2])

\* the query parameter p is the string form of the option v, or of the
\* default written dflt when the option was not supplied
EncodesOption(p, v, dflt) ==
  /\ p.t = "string"
  /\ IF v.t = "undefined" THEN p.s = dflt
     ELSE /\ AllIn(p.s, DigitChars \cup {"."})
          /\ ParseTenths(p.s) = v.n

\* C20: every request issued by getTagIps carries offset and limit as
\* strings, "0" and "1000" when the option was not supplied and otherwise
\* the numeral of the supplied number; it carries snapshot exactly when a
\* non-empty snapshot was supplied, and then the supplied token itself.
C20_TagIpsParams ==
  (call.op = "getTagIps" /\ Len(call.requests) = 1) =>
    LET p == call.requests[1].params
        o == call.options
    IN /\ EncodesOption(p.offset, o.offset, <<"0">>)
       /\ EncodesOption(p.limit, o.limit, <<"1", "0", "0", "0">>)
       /\ (p.snapshot # Undef) <=> (o.snapshot.t = "string" /\ o.snapshot.s # <<>>)
       /\ p.snapshot # Undef => p.snapshot = o.snapshot

\* a request with both defaults and a snapshot token
C20_Witness ==
  /\ call.op = "getTagIps" /\ Len(call.requests) = 1
  /\ call.options = [offset |-> Undef, limit |-> Undef, snapshot |-> S(<<"snap-1">>)]
  /\ call.requests[1].params.offset = S(<<"0">>)
  /\ call.requests[1].params.limit = S(<<"1", "0", "0", "0">>)
  /\ call.requests[1].params.snapshot = S(<<"snap-1">>)


----------------------------------------------------------------------------
\* the 2xx payload d has no result field (or there is no payload at all)
LacksResult(d) == d.body = "undefined" \/ d.result = "absent"

\* C21: a data operation answered with a success status and a payload
\* without the result field fails with "Invalid response format from
\* Guardian Intel API" and returns no value.
C21_MissingResultFails ==
  (call.pc = "done" /\ call.via = "response" /\ LacksResult(call.answer)) =>
    /\ call.settled = "rejected"
    /\ call.error = MsgInvalidResponse
    /\ call.value = NoValue


----------------------------------------------------------------------------
\* the first min(n, 3) of the names, separated by ", "
FirstThree(names) ==
  CASE Len(names) = 0 -> <<>>
    [] Len(names) = 1 -> names[1]
    [] Len(names) = 2 -> names[1] \o <<", ">> \o names[2]
    [] OTHER -> names[1] \o <<", ">> \o names[2] \o <<", ">> \o names[3]

\* the summary of a lookup result with the given threat level, tag names
\* and first sighting (Undef or Null when there is none)
SummaryOf(level, names, firstSeen) ==
  <<"IP threat level: ">> \o ToUpperCase(level)
  \o (IF Len(names) = 0 THEN <<>>
      ELSE <<" with ">> \o NatToStr(Len(names)) \o <<" associated tag(s): ">>
           \o FirstThree(names))
  \o (IF Len(names) > 3 THEN <<" and ">> \o NatToStr(Len(names) - 3) \o <<" more">>
      ELSE <<>>)
  \o (IF firstSeen.t = "string" THEN <<". First seen: ">> \o firstSeen.s ELSE <<>>)

\* what the answer to the lookup in progress said of the address
Looked == tool.awaited.value.of.lookup

\* C22: the summary of a lookup result is "IP threat level: " and the
\* threat level in upper case ("unknown" when the answer has none), then
\* the number of tags and the first three of them when there are tags, " and
\* n-3 more" when there are more than three, then the first sighting when
\* there is one.
C22_Summary ==
  (tool.pc = "done" /\ tool.name = "guardian_intel_lookup" /\ tool.settled = "resolved") =>
    tool.result.summary =
      SummaryOf(IF Looked.intent.t = "string" THEN Looked.intent.s
                ELSE <<"u", "n", "k", "n", "o", "w", "n">>,
                IF Looked.names.t = "array" THEN Looked.names.s ELSE <<>>,
                Looked.firstSeen)


----------------------------------------------------------------------------
\* C23: the health check does not gate the start. Once run() is called the
\* server connects to its transport, whether healthCheck returned true,
\* returned false or threw; from the probe run() goes nowhere but on to
\* connect.
C23_StartupNotGated ==
  /\ (server.pc # "created") ~> server.connected
  /\ [][server.pc = "probing" => server'.pc \in {"probing", "connecting"}]_vars
  /\ [](server.connected => server.probe \in ProbeOutcomes)

\* the server is connected after a probe that threw, with a warning logged
C23_Witness ==
  /\ server.connected /\ server.pc = "running"
  /\ server.probe = "threw" /\ server.warned


----------------------------------------------------------------------------
\* the body of a failed response carries none of the fields an error is
\* read from: it is null, a string, or an object without any of them
Malformed(d) ==
  \/ d.kind \in {"null", "string"}
  \/ d.kind = "object" /\ \A k \in BodyFields : d.f[k] = Undef

\* C24: a failed response whose body is null, a string or an object without
\* the error fields makes the operation fail with `Guardian Intel API Error:
\* <raw failure message>`, and not with a message carrying a code in
\* parentheses.
C24_MalformedBodyIsGeneric ==
  LET e == call.failure
  IN (FailedAttempt /\ client.axios.interceptor /\ e.response /\ Malformed(e.data)
        /\ e.code = Undef) =>
       /\ call.error = MsgGeneric(e.message)
       /\ ~IsCoded(call.error)


----------------------------------------------------------------------------
\* the rules of the call-tool handler, in their order: the text searched
\* for, the error code, and the message ("same" for the failure message)
Rules ==
  << [text |-> <<"Invalid IP address">>, code |-> "InvalidParams", says |-> "same"],
     [text |-> <<"Tag name is required">>, code |-> "InvalidParams", says |-> "same"],
     [text |-> <<"Guardian Intel API Error (", "4", "0", "4", ")">>,
      code |-> "InvalidParams", says |-> "Tag not found"],
     [text |-> <<"Guardian Intel API Error (", "5", "0", "3", ")">>,
      code |-> "InternalError", says |-> "Guardian Intel service temporarily unavailable"],
     [text |-> <<"timeout">>, code |-> "InternalError",
      says |-> "Request timeout - Guardian Intel API is not responding"],
     [text |-> <<"Unable to connect">>, code |-> "InternalError",
      says |-> "Unable to connect to Guardian Intel API"] >>

\* the text occurs in the message
Occurs(text, m) ==
  \E i \in 1..Len(m) :
    /\ i + Len(text) - 1 <= Len(m)
    /\ \A j \in 1..Len(text) : m[i + j - 1] = text[j]

\* the rules whose text occurs in the message m
Matching(m) == { k \in 1..Len(Rules) : Occurs(Rules[k].text, m) }

\* the reply follows the first matching rule for the failure message m,
\* or the generic rule when none matches
FollowsRules(reply, m) ==
  /\ reply.kind = "error" /\ reply.items = 0
  /\ IF Matching(m) = {}
     THEN reply.code = "InternalError" /\ reply.message = <<"Tool execution failed: ">> \o m
     ELSE LET k == CHOOSE i \in Matching(m) : \A j \in Matching(m) : i <= j
          IN /\ reply.code = Rules[k].code
             /\ reply.message = IF Rules[k].says = "same" THEN m ELSE <<Rules[k].says>>

\* the handler has replied to a call on the real tools / on the mock
RepliedReal == server.pc = "replied" /\ server.tools = "real"
RepliedMock == server.pc = "replied" /\ server.tools = "mock"

\* C25: every failure of the dispatcher becomes one protocol error, chosen
\* by the first rule, in the handler's order, whose text occurs in the
\* failure message, or the generic InternalError `Tool execution failed:
\* <message>` when none does; a success becomes exactly one text item
\* holding the result.
C25_FirstMatchingRule ==
  /\ (RepliedMock /\ server.rejection[1]) =>
       FollowsRules(server.reply, server.rejection[2].s)
  /\ (RepliedReal /\ tool.settled = "rejected") =>
       FollowsRules(server.reply, tool.error)
  /\ (RepliedReal /\ tool.settled = "resolved") =>
       /\ server.reply.kind = "content" /\ server.reply.items = 1
       /\ server.reply.text = tool.result

\* a failure message holding two of the texts, answered by the earlier rule
C25_Witness ==
  /\ RepliedMock /\ server.rejection[1]
  /\ Matching(server.rejection[2].s) = {4, 5}
  /\ server.reply.code = "InternalError"
  /\ server.reply.message = <<"Guardian Intel service temporarily unavailable">>


----------------------------------------------------------------------------
\* C26: when executeTool rejects with a value that is not an Error, the
\* handler reports InternalError with `Tool execution failed: ` followed by
\* the string form of the value.
C26_NonErrorAsString ==
  (RepliedMock /\ ~server.rejection[1]) =>
    /\ server.reply.kind = "error"
    /\ server.reply.code = "InternalError"
    /\ server.reply.message = <<"Tool execution failed: ">> \o ToStr(server.rejection[2])


----------------------------------------------------------------------------
\* the client operation behind each tool of the catalog
OperationOf(name) ==
  CASE name = "guardian_intel_lookup" -> "lookupIp"
    [] name = "guardian_intel_tags_list" -> "getTags"
    [] name = "guardian_intel_tag_details" -> "getTagDetails"
    [] name = "guardian_intel_tag_ips" -> "getTagIps"

\* C27: the catalog lists the same four distinct names in the same order
\* whenever it is asked for, and executeTool hands a name to a handler, which
\* calls the client operation of that tool, exactly when the name is in the
\* catalog; every other name is refused as an unknown tool, with no call.
C27_CatalogAndDispatcher ==
  /\ server.reply.kind = "tools" =>
       /\ server.reply.catalog =
            <<"guardian_intel_lookup", "guardian_intel_tags_list",
              "guardian_intel_tag_details", "guardian_intel_tag_ips">>
       /\ \A i, j \in 1..Len(server.reply.catalog) :
            server.reply.catalog[i] = server.reply.catalog[j] => i = j
  /\ tool.pc # "idle" =>
       IF \E i \in 1..Len(getToolDefinitions) : getToolDefinitions[i] = tool.name
       THEN /\ call.pc # "idle"
            /\ call.op = OperationOf(tool.name)
            /\ tool.error # MsgToolFailed(MsgUnknownTool(tool.name))
       ELSE /\ call = IdleCall
            /\ tool.pc = "done" /\ tool.settled = "rejected"
            /\ tool.error = MsgToolFailed(MsgUnknownTool(tool.name))

\* the last tool of the catalog has been called through the server and its
\* handler has called getTagIps
C27_Witness ==
  /\ RepliedReal /\ tool.name = "guardian_intel_tag_ips"
  /\ call.op = "getTagIps" /\ Len(call.requests) = 1
  /\ tool.settled = "resolved"


----------------------------------------------------------------------------
\* C28: a call through the handler, the dispatcher and the client that
\* fails the client's validation (address, tag name, limit, paging) reaches
\* the protocol caller as an error with code InvalidParams.
C28_ValidationIsInvalidParams ==
  (RepliedReal /\ tool.pc = "done" /\ call.via = "validation") =>
    /\ call.error \in ValidationMessages
    /\ server.reply.kind = "error"
    /\ server.reply.code = "InvalidParams"


----------------------------------------------------------------------------
\* how many times the prefix of executeTool's failures occurs in message m
PrefixCount(m) == Cardinality({ i \in 1..Len(m) : m[i] = "Tool execution failed: " })

\* C29: the message that reaches the protocol caller for a failed tool call
\* holds the prefix "Tool execution failed: " at most once, and an unknown
\* tool name is reported as `Tool execution failed: Unknown tool: <name>`.
C29_PrefixOnce ==
  (RepliedReal /\ server.reply.kind = "error") =>
    /\ PrefixCount(server.reply.message) <= 1
    /\ tool.name \notin ToolNames =>
         server.reply.message = <<"Tool execution failed: ", "Unknown tool: ", tool.name>>


----------------------------------------------------------------------------
(* Reading a tag page by page: a caller of guardian_intel_tag_ips that      *)
(* follows pagination.has_more, against an upstream that holds a fixed     *)
(* list of addresses and answers each request with the slice asked for.    *)

\* what the upstream answers to the request in flight: the entries from
\* offset up to offset + limit or the end of its list, and the total
UpstreamPage ==
  IF call.requests = <<>> THEN NoBody
  ELSE LET offset == DecimalValue(call.requests[1].params.offset.s)
           limit == DecimalValue(call.requests[1].params.limit.s)
           total == Len(paging.list)
           last == IF offset + limit < total THEN offset + limit ELSE total
       IN TagIpsBody(Arr(SubSeq(paging.list, offset + 1, last)), I(total), Undef, Undef)

\* the arguments of the caller's next call: its tag, its offset, its limit
PageInvocation ==
  <<"guardian_intel_tag_ips",
    Args(<<>>, S(<<"a">>),
         [offset |-> I(paging.offset), limit |-> I(paging.limit), snapshot |-> Undef],
         FALSE)>>

\* a caller sets out to read a tag of which the upstream holds total
\* addresses, limit at a time, from offset 0
StartPaging ==
  /\ paging.pc = "idle" /\ client.status = "ready"
  /\ \E total \in 0..MaxTotal, limit \in 1..MaxLimit :
       LET pool == <<"10.0.0.1", "10.0.0.2", "10.0.0.3", "10.0.0.4", "10.0.0.5",
                     "10.0.0.6", "10.0.0.7", "10.0.0.8">>
       IN paging' = [IdlePaging EXCEPT !.pc = "paging", !.list = SubSeq(pool, 1, total),
                                       !.limit = limit]
  /\ UNCHANGED <<build, client, call, tool, promises, server>>

\* the caller takes a page: it keeps the addresses and, while has_more is
\* true, moves its offset on by pagination.returned; it gives up on a failure
PageTaken ==
  /\ paging.pc = "paging" /\ tool.pc = "done"
  /\ paging' =
       IF tool.settled = "rejected" THEN [paging EXCEPT !.pc = "failed", !.calls = @ + 1]
       ELSE [paging EXCEPT
               !.pc = IF tool.result.has_more THEN "paging" ELSE "finished",
               !.collected = @ \o tool.result.ip_addresses.s,
               !.offset = IF tool.result.has_more THEN @ + tool.result.returned ELSE @,
               !.calls = @ + 1]
  /\ tool' = IdleTool
  /\ call' = IdleCall
  /\ UNCHANGED <<build, client, promises, server>>

\* the caller's loop; it is cut off after more calls than any list needs
NextPaging ==
  \/ Construct({S(<<"k">>)})
  \/ StartPaging
  \/ (paging.pc = "paging" /\ paging.calls <= MaxTotal + 1 /\ ExecuteTool({PageInvocation}))
  \/ Resolve({UpstreamPage})
  \/ ToolSettle
  \/ PageTaken

\* every request is answered and every await goes on
SpecPaging ==
  /\ Init /\ [][NextPaging]_vars
  /\ WF_vars(NextPaging)

\* C30: paging ends and is complete. A caller that starts at offset 0 and
\* moves on by pagination.returned while has_more is true stops after at
\* most one call for each address (one call for an empty list), and what it
\* has collected is then the upstream's list, in order, nothing twice and
\* nothing left out; until then it is the part of the list before its offset.
C30_PagingComplete ==
  /\ [](/\ paging.pc # "failed"
        /\ paging.calls <= Len(paging.list) + 1
        /\ paging.pc = "paging" =>
             /\ paging.offset <= Len(paging.list)
             /\ paging.collected = SubSeq(paging.list, 1, paging.offset)
        /\ paging.pc = "finished" =>
             /\ paging.collected = paging.list
             /\ paging.calls >= 1)
  /\ (paging.pc = "paging") ~> (paging.pc = "finished")

\* a list of MaxTotal addresses read in pages of less than half of it
C30_Witness ==
  /\ paging.pc = "finished"
  /\ Len(paging.list) = MaxTotal /\ paging.limit * 2 < MaxTotal
  /\ paging.calls >= 3
  /\ paging.collected = paging.list

====
